---- MODULE Spec2Model ----
(***************************************************************************)
(* Financial analyst assistant: the rule-based agent (ticker extraction,   *)
(* intent classification, dispatch) of agent/financial_agent.py and the    *)
(* NAV-drop pipeline of backend/langgraph_integration.py and               *)
(* backend/NAV_Alert_Trigger.py.                                           *)
(*                                                                         *)
(* Text is modelled at character level: a query is a sequence of words,    *)
(* its text the words joined by single spaces, a tuple of one-character    *)
(* strings.  lower(), upper(), the substring test `k in q` and the token   *)
(* regex are computed on that tuple.                                       *)
(***************************************************************************)
EXTENDS Integers, Sequences, FiniteSets, TLC

VARIABLES
  pc,         \* position of FinancialAgent.run
  query,      \* the argument of run, a sequence of words
  steps,      \* the local list `steps` of run
  tokens,     \* tokens of extract_tickers not yet handled
  suffixIx,   \* index in [".NS", ".BO", ""] of the candidate being validated
  found,      \* the local set `found` of extract_tickers
  inserted,   \* history: the elements of `found` in the order found.add added them
  tickers,    \* the list returned by extract_tickers
  intent,     \* the label returned by classify_intent
  envelope,   \* the dict returned by run
  calls,      \* outbound calls issued during the current run, in order
  answers,    \* history: what the validation calls of the token in hand answered, in order
  agent,      \* the FinancialAgent object: its attributes
  runLog,     \* history: a completed run (query, answers, tickers, envelope), if recorded
  runAnswers, \* history: what the external calls of the current run answered, in order
  cPrev,      \* classify_intent called directly: the label of the earlier call
  cQuery,     \* classify_intent called directly: query_lower
  cTickers,   \* classify_intent called directly: tickers
  cLabel,     \* classify_intent called directly: the returned label
  dData,      \* check_NAV_drop called directly: price_data
  dThr,       \* check_NAV_drop called directly: threshold
  dRes,       \* check_NAV_drop called directly: the returned dict
  navpc,      \* position of the NAV pipeline (START, fetch, analyze, alert, END)
  navState,   \* the FinancialState of the pipeline run
  navTrace,   \* history: the nodes executed in the current pipeline run, in order
  chat_history,        \* st.session_state.chat_history of the chat page
  last_finance_query,  \* st.session_state.last_finance_query
  processing,          \* st.session_state.processing
  user_query,          \* the text held by the widget chat_text_input
  final_query,         \* the text the script run in progress is handling
  submitted,           \* history: the number of queries submitted so far
  chatpc,              \* position of the chat page script ("idle", "rerun": st.rerun()
                       \* was called, "suggest" / "input": agent.run in progress)
  whImpl,      \* send_alert_config called directly: the module it is taken from
  whArgs,      \* send_alert_config called directly: its arguments
  whAnswer,    \* what requests.post does: a response, or an exception
  whPosts,     \* the payloads posted to the webhook, in order
  whResult,    \* the tuple returned by send_alert_config
  formErrors,  \* the alert form: the list `errors` of the submission, once submitted
  epRequest,   \* POST /run_NAV_Alert_Trigger: the JSON body of the request in hand
  epResponse   \* POST /run_NAV_Alert_Trigger: the HTTP response, once there is one

vars ==
  <<pc, query, steps, tokens, suffixIx, found, inserted, tickers, intent,
    envelope, calls, answers, agent, runLog, runAnswers, cPrev,
    cQuery, cTickers, cLabel, dData, dThr, dRes, navpc, navState,
    navTrace, chat_history, last_finance_query, processing, user_query, final_query,
    submitted, chatpc, whImpl, whArgs, whAnswer, whPosts, whResult, formErrors,
    epRequest, epResponse>>

agentVars ==
  <<pc, query, steps, tokens, suffixIx, found, inserted, tickers, intent,
    envelope, calls, answers, agent>>

\* a direct call of classify_intent
cArgs ==
  <<cQuery, cTickers, cLabel>>

\* direct calls of classify_intent and the record of repeated calls and runs
classifyVars ==
  <<cArgs, cPrev, runLog, runAnswers>>

dropVars ==
  <<dData, dThr, dRes>>

navVars ==
  <<navpc, navState, navTrace>>

pageVars ==
  <<chat_history, last_finance_query, processing, user_query, final_query, submitted,
    chatpc>>

webhookVars ==
  <<whImpl, whArgs, whAnswer, whPosts, whResult, formErrors>>

epVars ==
  <<epRequest, epResponse>>

uiVars ==
  <<pageVars, webhookVars, epVars>>

----------------------------------------------------------------------------
(* Bounds of the model *)

\* words in a query
MaxWords ==
  2

\* tickers in a list passed to classify_intent directly
MaxTickers ==
  2

\* prices passed to check_NAV_drop directly are 0..MaxPrice
MaxPrice ==
  20

\* thresholds passed to check_NAV_drop directly are -MaxThreshold..MaxThreshold
MaxThreshold ==
  10

\* the chat page accepts a new interaction while chat_history is shorter
MaxMessages ==
  4

\* closing prices the provider returns are 0..MaxClose thirds of a cent
MaxClose ==
  9

\* rows of the price history the provider returns
MaxRows ==
  2

----------------------------------------------------------------------------
(* Text *)

LowerLetters ==
  <<"a", "b", "c", "d", "e", "f", "g", "h", "i", "j", "k", "l", "m",
    "n", "o", "p", "q", "r", "s", "t", "u", "v", "w", "x", "y", "z">>

UpperLetters ==
  <<"A", "B", "C", "D", "E", "F", "G", "H", "I", "J", "K", "L", "M",
    "N", "O", "P", "Q", "R", "S", "T", "U", "V", "W", "X", "Y", "Z">>

Range(s) ==
  {s[i] : i \in DOMAIN s}

UpperSet ==
  Range(UpperLetters)

LowerSet ==
  Range(LowerLetters)

IsUpper(c) ==
  c \in UpperSet

IsLower(c) ==
  c \in LowerSet

\* \w of the token regex, over the characters of the model
IsWordChar(c) ==
  IsUpper(c) \/ IsLower(c)

\* str.lower() of one character: the letters A-Z change, nothing else does
LowerOf ==
  [c \in UpperSet |-> LowerLetters[CHOOSE i \in DOMAIN UpperLetters : UpperLetters[i] = c]]

\* str.upper() of one character: the letters a-z change, nothing else does
UpperOf ==
  [c \in LowerSet |-> UpperLetters[CHOOSE i \in DOMAIN LowerLetters : LowerLetters[i] = c]]

LowerChar(c) ==
  IF IsUpper(c) THEN LowerOf[c] ELSE c

UpperChar(c) ==
  IF IsLower(c) THEN UpperOf[c] ELSE c

Lower(text) ==
  [i \in DOMAIN text |-> LowerChar(text[i])]

Upper(text) ==
  [i \in DOMAIN text |-> UpperChar(text[i])]

\* the characters of each string literal the model takes apart
Chars ==
  ("Compare" :> <<"C", "o", "m", "p", "a", "r", "e">>) @@
  ("TCS" :> <<"T", "C", "S">>) @@
  ("SBI" :> <<"S", "B", "I">>) @@
  ("infy" :> <<"i", "n", "f", "y">>) @@
  ("tvs" :> <<"t", "v", "s">>) @@
  ("AAPL" :> <<"A", "A", "P", "L">>) @@
  ("Price" :> <<"P", "r", "i", "c", "e">>) @@
  ("news" :> <<"n", "e", "w", "s">>) @@
  ("market" :> <<"m", "a", "r", "k", "e", "t">>) @@
  ("profit" :> <<"p", "r", "o", "f", "i", "t">>) @@
  ("buy" :> <<"b", "u", "y">>) @@
  ("stock" :> <<"s", "t", "o", "c", "k">>) @@
  ("stocks" :> <<"s", "t", "o", "c", "k", "s">>) @@
  ("share" :> <<"s", "h", "a", "r", "e">>) @@
  ("shares" :> <<"s", "h", "a", "r", "e", "s">>) @@
  ("equity" :> <<"e", "q", "u", "i", "t", "y">>) @@
  ("equities" :> <<"e", "q", "u", "i", "t", "i", "e", "s">>) @@
  ("nifty" :> <<"n", "i", "f", "t", "y">>) @@
  ("sensex" :> <<"s", "e", "n", "s", "e", "x">>) @@
  ("index" :> <<"i", "n", "d", "e", "x">>) @@
  ("indices" :> <<"i", "n", "d", "i", "c", "e", "s">>) @@
  ("markets" :> <<"m", "a", "r", "k", "e", "t", "s">>) @@
  ("invest" :> <<"i", "n", "v", "e", "s", "t">>) @@
  ("investment" :> <<"i", "n", "v", "e", "s", "t", "m", "e", "n", "t">>) @@
  ("investing" :> <<"i", "n", "v", "e", "s", "t", "i", "n", "g">>) @@
  ("trading" :> <<"t", "r", "a", "d", "i", "n", "g">>) @@
  ("intraday" :> <<"i", "n", "t", "r", "a", "d", "a", "y">>) @@
  ("swing" :> <<"s", "w", "i", "n", "g">>) @@
  ("long term" :> <<"l", "o", "n", "g", " ", "t", "e", "r", "m">>) @@
  ("short term" :> <<"s", "h", "o", "r", "t", " ", "t", "e", "r", "m">>) @@
  ("portfolio" :> <<"p", "o", "r", "t", "f", "o", "l", "i", "o">>) @@
  ("risk" :> <<"r", "i", "s", "k">>) @@
  ("returns" :> <<"r", "e", "t", "u", "r", "n", "s">>) @@
  ("loss" :> <<"l", "o", "s", "s">>) @@
  ("valuation" :> <<"v", "a", "l", "u", "a", "t", "i", "o", "n">>) @@
  ("pe ratio" :> <<"p", "e", " ", "r", "a", "t", "i", "o">>) @@
  ("pe" :> <<"p", "e">>) @@
  ("dividend" :> <<"d", "i", "v", "i", "d", "e", "n", "d">>) @@
  ("eps" :> <<"e", "p", "s">>) @@
  ("earnings" :> <<"e", "a", "r", "n", "i", "n", "g", "s">>) @@
  ("results" :> <<"r", "e", "s", "u", "l", "t", "s">>) @@
  ("balance sheet" :> <<"b", "a", "l", "a", "n", "c", "e", " ", "s", "h", "e", "e", "t">>) @@
  ("cash flow" :> <<"c", "a", "s", "h", " ", "f", "l", "o", "w">>) @@
  ("financials" :> <<"f", "i", "n", "a", "n", "c", "i", "a", "l", "s">>) @@
  ("fundamental" :> <<"f", "u", "n", "d", "a", "m", "e", "n", "t", "a", "l">>) @@
  ("technical" :> <<"t", "e", "c", "h", "n", "i", "c", "a", "l">>) @@
  ("mutual fund" :> <<"m", "u", "t", "u", "a", "l", " ", "f", "u", "n", "d">>) @@
  ("mf" :> <<"m", "f">>) @@
  ("etf" :> <<"e", "t", "f">>) @@
  ("sip" :> <<"s", "i", "p">>) @@
  ("brokerage" :> <<"b", "r", "o", "k", "e", "r", "a", "g", "e">>) @@
  ("compare" :> <<"c", "o", "m", "p", "a", "r", "e">>) @@
  ("vs" :> <<"v", "s">>) @@
  ("versus" :> <<"v", "e", "r", "s", "u", "s">>) @@
  ("better than" :> <<"b", "e", "t", "t", "e", "r", " ", "t", "h", "a", "n">>) @@
  ("between" :> <<"b", "e", "t", "w", "e", "e", "n">>) @@
  ("financial" :> <<"f", "i", "n", "a", "n", "c", "i", "a", "l">>) @@
  ("balance" :> <<"b", "a", "l", "a", "n", "c", "e">>) @@
  ("price" :> <<"p", "r", "i", "c", "e">>) @@
  ("cmp" :> <<"c", "m", "p">>) @@
  ("quote" :> <<"q", "u", "o", "t", "e">>) @@
  ("trading at" :> <<"t", "r", "a", "d", "i", "n", "g", " ", "a", "t">>) @@
  ("sell" :> <<"s", "e", "l", "l">>) @@
  ("Yes" :> <<"Y", "e", "s">>) @@
  (" OK " :> <<" ", "O", "K", " ">>) @@
  ("of" :> <<"o", "f">>) @@
  ("INFY" :> <<"I", "N", "F", "Y">>) @@
  ("Is" :> <<"I", "s">>) @@
  ("a" :> <<"a">>) @@
  ("good" :> <<"g", "o", "o", "d">>) @@
  ("stock?" :> <<"s", "t", "o", "c", "k", "?">>) @@
  ("and" :> <<"a", "n", "d">>) @@
  ("Give" :> <<"G", "i", "v", "e">>) @@
  ("me" :> <<"m", "e">>) @@
  ("updates" :> <<"u", "p", "d", "a", "t", "e", "s">>) @@
  ("Best" :> <<"B", "e", "s", "t">>) @@
  ("for" :> <<"f", "o", "r">>) @@
  ("long" :> <<"l", "o", "n", "g">>) @@
  ("term" :> <<"t", "e", "r", "m">>) @@
  ("in" :> <<"i", "n">>) @@
  ("India" :> <<"I", "n", "d", "i", "a">>) @@
  ("yes" :> <<"y", "e", "s">>) @@
  ("yep" :> <<"y", "e", "p">>) @@
  ("yeah" :> <<"y", "e", "a", "h">>) @@
  ("ok" :> <<"o", "k">>) @@
  ("okay" :> <<"o", "k", "a", "y">>) @@
  ("sure" :> <<"s", "u", "r", "e">>) @@
  ("fine" :> <<"f", "i", "n", "e">>) @@
  ("go ahead" :> <<"g", "o", " ", "a", "h", "e", "a", "d">>) @@
  ("" :> <<>>) @@
  ("  " :> <<" ", " ">>) @@
  (" aapl " :> <<" ", "a", "a", "p", "l", " ">>) @@
  ("tcs.ns" :> <<"t", "c", "s", ".", "n", "s">>) @@
  ("user@example.com" :> <<"u", "s", "e", "r", "@", "e", "x", "a", "m", "p", "l", "e", ".", "c", "o", "m">>) @@
  ("user@example" :> <<"u", "s", "e", "r", "@", "e", "x", "a", "m", "p", "l", "e">>) @@
  ("userexample.com" :> <<"u", "s", "e", "r", "e", "x", "a", "m", "p", "l", "e", ".", "c", "o", "m">>) @@
  ("user@example.c" :> <<"u", "s", "e", "r", "@", "e", "x", "a", "m", "p", "l", "e", ".", "c">>) @@
  (" user@example.com" :> <<" ", "u", "s", "e", "r", "@", "e", "x", "a", "m", "p", "l", "e", ".", "c", "o", "m">>) @@
  ("u.s-r+1@ex-ample.co.in" :> <<"u", ".", "s", "-", "r", "+", "1", "@", "e", "x", "-", "a", "m", "p", "l", "e", ".", "c", "o", ".", "i", "n">>) @@
  ("user@.com" :> <<"u", "s", "e", "r", "@", ".", "c", "o", "m">>)

\* the string spelled by characters i..j of a tuple of characters
RECURSIVE Str(_, _, _)
Str(cs, i, j) ==
  IF i > j THEN "" ELSE cs[i] \o Str(cs, i + 1, j)

\* Python's `k in text` for a string k: substring containment
Contains(text, k) ==
  LET kc == Chars[k]
  IN  \E i \in 1..(Len(text) - Len(kc) + 1) :
        \A j \in DOMAIN kc : text[i + j - 1] = kc[j]

\* any(k in text for k in ks)
ContainsAny(text, ks) ==
  \E j \in DOMAIN ks : Contains(text, ks[j])

\* The words queries are made of, as typed by the user
Vocabulary ==
  {"Compare", "TCS", "SBI", "infy", "tvs", "AAPL", "Price", "news", "market",
   "profit", "buy"}

Queries ==
  UNION {[1..n -> Vocabulary] : n \in 0..MaxWords}

\* the text of a query: its words joined by single spaces
RECURSIVE Text(_)
Text(q) ==
  IF q = <<>> THEN <<>>
  ELSE IF Len(q) = 1 THEN Chars[q[1]]
  ELSE Chars[q[1]] \o <<" ">> \o Text(Tail(q))

\* str.strip(): leading and trailing blanks removed
RECURSIVE Strip(_)
Strip(text) ==
  IF text = <<>> THEN <<>>
  ELSE IF Head(text) = " " THEN Strip(Tail(text))
  ELSE IF text[Len(text)] = " " THEN Strip(SubSeq(text, 1, Len(text) - 1))
  ELSE text

----------------------------------------------------------------------------
(* agent/financial_agent.py: tables *)

COMMON_WORDS ==
  {
    "WHAT", "THE", "IS", "A", "AN", "OF", "TO", "IN", "FOR", "PRICE",
    "HOW", "ARE", "YOU", "STOCK", "STOCKS", "TELL", "ME", "TODAY", "CHECK",
    "SHOW", "MARKET", "UPDATES", "NEWS", "LONG", "BEST", "TERM", "INDIA",
    "SHORT", "BETWEEN", "VS", "VERSUS", "AND", "ON", "ABOUT", "WITH",
    "WHICH", "BETTER", "GOOD", "GIVE", "COMPARE", "CAN", "PLEASE", "MY",
    "ADVISE", "SUGGEST", "LOOKING", "AT", "FORWARD", "INVESTMENT",
    "INVEST", "TRADING", "I", "WANT", "KNOW", "CURRENT", "VALUE"
  }

FINANCE_KEYWORDS ==
  <<
    "stock", "stocks", "share", "shares", "equity", "equities", "nifty",
    "sensex", "index", "indices", "market", "markets", "invest",
    "investment", "investing", "trading", "intraday", "swing", "long term",
    "short term", "portfolio", "risk", "returns", "profit", "loss",
    "valuation", "pe ratio", "pe", "dividend", "eps", "earnings",
    "results", "balance sheet", "cash flow", "financials", "fundamental",
    "technical", "mutual fund", "mf", "etf", "sip", "brokerage"
  >>

INDIA_TICKER_MAP ==
  ("SBI" :> "SBIN.NS") @@
  ("SBIN" :> "SBIN.NS") @@
  ("HDFC" :> "HDFCBANK.NS") @@
  ("HDFCBANK" :> "HDFCBANK.NS") @@
  ("ICICI" :> "ICICIBANK.NS") @@
  ("ICICIBANK" :> "ICICIBANK.NS") @@
  ("AXIS" :> "AXISBANK.NS") @@
  ("AXISBANK" :> "AXISBANK.NS") @@
  ("KOTAK" :> "KOTAKBANK.NS") @@
  ("KOTAKBANK" :> "KOTAKBANK.NS") @@
  ("INFY" :> "INFY.NS") @@
  ("INFOSYS" :> "INFY.NS") @@
  ("TCS" :> "TCS.NS") @@
  ("TATA CONSULTANCY" :> "TCS.NS") @@
  ("WIPRO" :> "WIPRO.NS") @@
  ("HCL" :> "HCLTECH.NS") @@
  ("HCLTECH" :> "HCLTECH.NS") @@
  ("TECHM" :> "TECHM.NS") @@
  ("RELIANCE" :> "RELIANCE.NS") @@
  ("LT" :> "LT.NS") @@
  ("L&T" :> "LT.NS") @@
  ("ADANIPORTS" :> "ADANIPORTS.NS") @@
  ("TITAN" :> "TITAN.NS") @@
  ("MARUTI" :> "MARUTI.NS") @@
  ("TATAMOTORS" :> "TATAMOTORS.NS") @@
  ("TATA MOTORS" :> "TATAMOTORS.NS") @@
  ("TVS" :> "TVSMOTOR.NS") @@
  ("BAJAJ" :> "BAJAJ-AUTO.NS") @@
  ("BAJAJAUTO" :> "BAJAJ-AUTO.NS") @@
  ("ITC" :> "ITC.NS") @@
  ("HUL" :> "HINDUNILVR.NS") @@
  ("HINDUSTAN UNILEVER" :> "HINDUNILVR.NS") @@
  ("NESTLE" :> "NESTLEIND.NS") @@
  ("ASIANPAINTS" :> "ASIANPAINT.NS") @@
  ("ASIANPAINT" :> "ASIANPAINT.NS") @@
  ("DMART" :> "DMART.NS") @@
  ("AVENUE SUPERMARTS" :> "DMART.NS") @@
  ("SUNPHARMA" :> "SUNPHARMA.NS") @@
  ("CIPLA" :> "CIPLA.NS") @@
  ("LUPIN" :> "LUPIN.NS") @@
  ("DRREDDY" :> "DRREDDY.NS") @@
  ("REDDY" :> "DRREDDY.NS") @@
  ("TATASTEEL" :> "TATASTEEL.NS") @@
  ("JSW" :> "JSWSTEEL.NS") @@
  ("JSWSTEEL" :> "JSWSTEEL.NS") @@
  ("HINDALCO" :> "HINDALCO.NS") @@
  ("ONGC" :> "ONGC.NS") @@
  ("POWERGRID" :> "POWERGRID.NS") @@
  ("NTPC" :> "NTPC.NS") @@
  ("JIO" :> "RELIANCE.NS") @@
  ("AIRTEL" :> "BHARTIARTL.NS") @@
  ("BHARTI" :> "BHARTIARTL.NS") @@
  ("BAJAJFIN" :> "BAJFINANCE.NS") @@
  ("BAJFINANCE" :> "BAJFINANCE.NS") @@
  ("BAJAJFINSERV" :> "BAJAJFINSV.NS") @@
  ("ZOMATO" :> "ZOMATO.NS") @@
  ("NYKAA" :> "NYKAA.NS") @@
  ("PAYTM" :> "PAYTM.NS") @@
  ("MCDOWELL" :> "MCDOWELL-N.NS") @@
  ("IRCTC" :> "IRCTC.NS")

Suffixes ==
  <<".NS", ".BO", "">>

\* outcomes of yf.Ticker(candidate).fast_info and the "lastPrice" test
ValidationOutcomes ==
  {"lastPrice", "noLastPrice", "raises"}

\* outcomes of a YFinanceHelper data fetch (every one catches its exceptions)
FetchOutcomes ==
  {"ok", "error"}

\* outcomes of the Groq completion call inside AgentModel.query_model
LlmOutcomes ==
  {"ok", "raises"}

None ==
  "None"

EmptyDict ==
  <<>>

\* dict.get(key) is not None
Has(d, key) ==
  key \in DOMAIN d

NoEnvelope ==
  [type |-> "none"]

----------------------------------------------------------------------------
(* agent/financial_agent.py: extract_tickers *)

\* length of the match of \b[A-Z]{2,10}\b starting at position i, 0 if none
MatchLen(s, i) ==
  LET before == i = 1 \/ ~IsWordChar(s[i - 1])
      fits(n) == /\ i + n - 1 <= Len(s)
                 /\ \A j \in i..(i + n - 1) : IsUpper(s[j])
                 /\ (i + n > Len(s) \/ ~IsWordChar(s[i + n]))
      lens == {n \in 2..10 : fits(n)}
  IN  IF before /\ lens # {} THEN CHOOSE n \in lens : \A m \in lens : m <= n
      ELSE 0

\* re.findall(r"\b[A-Z]{2,10}\b", s) scanning from position i
RECURSIVE FindAll(_, _)
FindAll(s, i) ==
  IF i > Len(s) THEN <<>>
  ELSE LET n == MatchLen(s, i)
       IN  IF n > 0 THEN <<Str(s, i, i + n - 1)>> \o FindAll(s, i + n)
           ELSE FindAll(s, i + 1)

Tokenize(text) ==
  FindAll(Upper(text), 1)

\* list(found): one of the iteration orders of a set of strings
ListsOf(S) ==
  {l \in [1..Cardinality(S) -> S] : \A i, j \in DOMAIN l : i # j => l[i] # l[j]}

----------------------------------------------------------------------------
(* agent/financial_agent.py: is_finance_query, classify_intent *)

is_finance_query(q) ==
  ContainsAny(Lower(Text(q)), FINANCE_KEYWORDS)

\* classify_intent with the news test after the market test
classify_intent_MarketFirst(query_lower, ts) ==
  IF ContainsAny(query_lower, <<"compare", "vs", "versus", "better than", "between">>)
  THEN (IF Len(ts) >= 2 THEN "compare" ELSE "general")
  ELSE IF ContainsAny(query_lower, <<"market", "indices", "index", "nifty", "sensex">>)
  THEN "market"
  ELSE IF Contains(query_lower, "news")
  THEN "news"
  ELSE IF ContainsAny(query_lower, <<"profit", "financial", "valuation", "balance">>)
          /\ ts # <<>>
  THEN "financials"
  ELSE IF ContainsAny(query_lower, <<"price", "cmp", "quote", "trading at">>)
          /\ ts # <<>>
  THEN "price"
  ELSE IF ts # <<>>
          /\ ContainsAny(query_lower, <<"long term", "short term", "buy", "sell">>)
  THEN "financials"
  ELSE "general"

\* classify_intent without the final `return "general"`: the function falls
\* off its end and returns None
classify_intent_NoDefault(query_lower, ts) ==
  IF ContainsAny(query_lower, <<"compare", "vs", "versus", "better than", "between">>)
  THEN (IF Len(ts) >= 2 THEN "compare" ELSE "general")
  ELSE IF Contains(query_lower, "news")
  THEN "news"
  ELSE IF ContainsAny(query_lower, <<"market", "indices", "index", "nifty", "sensex">>)
  THEN "market"
  ELSE IF ContainsAny(query_lower, <<"profit", "financial", "valuation", "balance">>)
          /\ ts # <<>>
  THEN "financials"
  ELSE IF ContainsAny(query_lower, <<"price", "cmp", "quote", "trading at">>)
          /\ ts # <<>>
  THEN "price"
  ELSE IF ts # <<>>
          /\ ContainsAny(query_lower, <<"long term", "short term", "buy", "sell">>)
  THEN "financials"
  ELSE None

\* classify_intent whose comparison rule returns only with two tickers and
\* otherwise goes on to the later rules
classify_intent_CompareFallsThrough(query_lower, ts) ==
  IF ContainsAny(query_lower, <<"compare", "vs", "versus", "better than", "between">>)
     /\ Len(ts) >= 2
  THEN "compare"
  ELSE IF Contains(query_lower, "news")
  THEN "news"
  ELSE IF ContainsAny(query_lower, <<"market", "indices", "index", "nifty", "sensex">>)
  THEN "market"
  ELSE IF ContainsAny(query_lower, <<"profit", "financial", "valuation", "balance">>)
          /\ ts # <<>>
  THEN "financials"
  ELSE IF ContainsAny(query_lower, <<"price", "cmp", "quote", "trading at">>)
          /\ ts # <<>>
  THEN "price"
  ELSE IF ts # <<>>
          /\ ContainsAny(query_lower, <<"long term", "short term", "buy", "sell">>)
  THEN "financials"
  ELSE "general"

classify_intent(query_lower, ts) ==
  IF ContainsAny(query_lower, <<"compare", "vs", "versus", "better than", "between">>)
  THEN (IF Len(ts) >= 2 THEN "compare" ELSE "general")
  ELSE IF Contains(query_lower, "news")
  THEN "news"
  ELSE IF ContainsAny(query_lower, <<"market", "indices", "index", "nifty", "sensex">>)
  THEN "market"
  ELSE IF ContainsAny(query_lower, <<"profit", "financial", "valuation", "balance">>)
          /\ ts # <<>>
  THEN "financials"
  ELSE IF ContainsAny(query_lower, <<"price", "cmp", "quote", "trading at">>)
          /\ ts # <<>>
  THEN "price"
  ELSE IF ts # <<>>
          /\ ContainsAny(query_lower, <<"long term", "short term", "buy", "sell">>)
  THEN "financials"
  ELSE "general"

----------------------------------------------------------------------------
(* agent/financial_agent.py: FinancialAgent.run, step by step *)

Call(op, arg) ==
  [op |-> op, arg |-> arg, by |-> "agent"]

\* a call issued by YFinanceHelper.compare_stocks
CallByCompare(op, arg) ==
  [op |-> op, arg |-> arg, by |-> "compare_stocks"]

\* `for ticker in tickers` of compare_stocks: get_key_stats and get_price per ticker
RECURSIVE CompareLoop(_)
CompareLoop(ts) ==
  IF ts = <<>>
  THEN <<>>
  ELSE <<CallByCompare("get_key_stats", <<Head(ts)>>),
         CallByCompare("get_price", <<Head(ts)>>)>> \o CompareLoop(Tail(ts))

\* the dict a YFinanceHelper fetch returns when the provider answers ("ok") or
\* raises ("error"): get_price, get_financials and get_news return the caught
\* exception as {error: message}; get_market_summary skips every index that
\* raises; compare_stocks reads the error dicts of get_key_stats and get_price
\* with .get and returns a comparison of None fields
Payload(op, outcome) ==
  IF outcome = "ok"
  THEN [result |-> op]
  ELSE IF op = "get_market_summary"
  THEN [indices |-> <<>>, timestamp |-> "now"]
  ELSE IF op = "compare_stocks"
  THEN [comparison |-> "None fields", tickers |-> "upper"]
  ELSE [error |-> "Failed to fetch"]

\* AgentModel.query_model: the completion text, or the caught error as text
query_model(outcome) ==
  IF outcome = "ok" THEN "completion" ELSE "[GROQ ERROR]"

\* RunCall that keeps the steps list on the agent object instead of in a local
RunCall_StepsOnObject(q) ==
  /\ pc = "idle"
  /\ query' = q
  /\ tokens' = Tokenize(Text(q))
  /\ steps' = (IF Has(agent, "steps") THEN agent.steps ELSE <<>>) \o <<"User asked">>
  /\ agent' = [model |-> agent.model, steps |-> steps']
  /\ found' = {}
  /\ inserted' = <<>>
  /\ pc' = "extract"
  /\ answers' = <<>>
  /\ UNCHANGED <<suffixIx, tickers, intent, envelope, calls>>

\* run(q): steps = [User asked], then extract_tickers starts
RunCall(q) ==
  /\ pc = "idle"
  /\ query' = q
  /\ tokens' = Tokenize(Text(q))
  /\ steps' = <<"User asked">>
  /\ found' = {}
  /\ inserted' = <<>>
  /\ pc' = "extract"
  /\ answers' = <<>>
  /\ UNCHANGED <<suffixIx, tickers, intent, envelope, calls, agent>>

\* run called directly with a query of the vocabulary
RunStart ==
  /\ pc = "idle"
  /\ \E q \in Queries : RunCall(q)

\* the queries of the runs that are repeated
RepeatQueries ==
  {<<"news", "tvs">>, <<"Price", "AAPL">>}

\* run called again, with one of the repeated queries
RepeatStart ==
  /\ pc = "idle"
  /\ \E q \in RepeatQueries : RunCall(q)

\* found.add(symbol)
Add(symbol) ==
  /\ found' = found \cup {symbol}
  /\ inserted' = IF symbol \in found THEN inserted ELSE Append(inserted, symbol)

\* ExtractToken without the alias lookup: every token that is not a stop-word
\* goes to the validation loop
ExtractToken_NoAliasLookup ==
  /\ pc = "extract"
  /\ tokens # <<>>
  /\ LET token == Head(tokens)
     IN  IF token \in COMMON_WORDS
         THEN /\ tokens' = Tail(tokens)
              /\ UNCHANGED <<pc, found, inserted, suffixIx>>
         ELSE /\ pc' = "validate"
              /\ suffixIx' = 1
              /\ UNCHANGED <<tokens, found, inserted>>
  /\ answers' = <<>>
  /\ UNCHANGED <<query, steps, tickers, intent, envelope, calls, agent>>

\* ExtractToken without the stop-word test
ExtractToken_NoStopWords ==
  /\ pc = "extract"
  /\ tokens # <<>>
  /\ LET token == Head(tokens)
     IN  IF token \in DOMAIN INDIA_TICKER_MAP
         THEN /\ Add(INDIA_TICKER_MAP[token])
              /\ tokens' = Tail(tokens)
              /\ UNCHANGED <<pc, suffixIx>>
         ELSE /\ pc' = "validate"
              /\ suffixIx' = 1
              /\ UNCHANGED <<tokens, found, inserted>>
  /\ answers' = <<>>
  /\ UNCHANGED <<query, steps, tickers, intent, envelope, calls, agent>>

\* one iteration of `for token in tokens` up to the validation loop
ExtractToken ==
  /\ pc = "extract"
  /\ tokens # <<>>
  /\ LET token == Head(tokens)
     IN  IF token \in COMMON_WORDS
         THEN /\ tokens' = Tail(tokens)
              /\ UNCHANGED <<pc, found, inserted, suffixIx>>
         ELSE IF token \in DOMAIN INDIA_TICKER_MAP
         THEN /\ Add(INDIA_TICKER_MAP[token])
              /\ tokens' = Tail(tokens)
              /\ UNCHANGED <<pc, suffixIx>>
         ELSE /\ pc' = "validate"
              /\ suffixIx' = 1
              /\ UNCHANGED <<tokens, found, inserted>>
  /\ answers' = <<>>
  /\ UNCHANGED <<query, steps, tickers, intent, envelope, calls, agent>>

\* ValidateCandidate without the `break` after an accepted candidate
ValidateCandidate_NoBreak(outcome) ==
  /\ pc = "validate"
  /\ LET candidate == Head(tokens) \o Suffixes[suffixIx]
     IN  /\ calls' = Append(calls, Call("fast_info", <<candidate>>))
         /\ answers' = Append(answers, outcome)
         /\ IF outcome = "lastPrice" THEN Add(candidate) ELSE UNCHANGED <<found, inserted>>
         /\ IF suffixIx < Len(Suffixes)
            THEN /\ suffixIx' = suffixIx + 1
                 /\ UNCHANGED <<pc, tokens>>
            ELSE /\ tokens' = Tail(tokens)
                 /\ pc' = "extract"
                 /\ suffixIx' = 0
  /\ UNCHANGED <<query, steps, tickers, intent, envelope, agent>>

\* ValidateCandidate whose `except` leaves the loop over the tokens: an
\* exception on one candidate ends the extraction
ValidateCandidate_RaiseAborts(outcome) ==
  /\ pc = "validate"
  /\ LET candidate == Head(tokens) \o Suffixes[suffixIx]
     IN  /\ calls' = Append(calls, Call("fast_info", <<candidate>>))
         /\ answers' = Append(answers, outcome)
         /\ IF outcome = "lastPrice"
            THEN /\ Add(candidate)
                 /\ tokens' = Tail(tokens)
                 /\ pc' = "extract"
                 /\ suffixIx' = 0
            ELSE IF outcome = "raises"
            THEN /\ tokens' = <<>>
                 /\ pc' = "extract"
                 /\ suffixIx' = 0
                 /\ UNCHANGED <<found, inserted>>
            ELSE IF suffixIx < Len(Suffixes)
            THEN /\ suffixIx' = suffixIx + 1
                 /\ UNCHANGED <<pc, tokens, found, inserted>>
            ELSE /\ tokens' = Tail(tokens)
                 /\ pc' = "extract"
                 /\ suffixIx' = 0
                 /\ UNCHANGED <<found, inserted>>
  /\ UNCHANGED <<query, steps, tickers, intent, envelope, agent>>

\* one iteration of `for suffix in [".NS", ".BO", ""]`
ValidateCandidate(outcome) ==
  /\ pc = "validate"
  /\ LET candidate == Head(tokens) \o Suffixes[suffixIx]
     IN  /\ calls' = Append(calls, Call("fast_info", <<candidate>>))
         /\ answers' = Append(answers, outcome)
         /\ IF outcome = "lastPrice"
            THEN /\ Add(candidate)
                 /\ tokens' = Tail(tokens)
                 /\ pc' = "extract"
                 /\ suffixIx' = 0
            ELSE IF suffixIx < Len(Suffixes)
            THEN /\ suffixIx' = suffixIx + 1
                 /\ UNCHANGED <<pc, tokens, found, inserted>>
            ELSE /\ tokens' = Tail(tokens)
                 /\ pc' = "extract"
                 /\ suffixIx' = 0
                 /\ UNCHANGED <<found, inserted>>
  /\ UNCHANGED <<query, steps, tickers, intent, envelope, agent>>

\* tickers = list(found); return tickers
ExtractReturn(l) ==
  /\ pc = "extract"
  /\ tokens = <<>>
  /\ l \in ListsOf(found)
  /\ tickers' = l
  /\ pc' = "classify"
  /\ answers' = <<>>
  /\ UNCHANGED <<query, steps, tokens, suffixIx, found, inserted, intent, envelope,
                 calls, agent>>

\* intent = classify_intent(query_lower, tickers); steps.append(Detected intent)
Classify ==
  /\ pc = "classify"
  /\ intent' = classify_intent(Lower(Text(query)), tickers)
  /\ steps' = Append(steps, "Detected intent")
  /\ pc' = "dispatch"
  /\ UNCHANGED <<query, tokens, suffixIx, found, inserted, tickers, envelope, calls,
                 answers, agent>>

primary ==
  IF tickers # <<>> THEN tickers[1] ELSE None

\* the LLM answer to a general finance query
GeneralLLM(llm) ==
  LET st == Append(steps, "General finance query")
  IN  [env |-> [type |-> "llm", intent |-> "general", ticker |-> primary,
                response |-> query_model(llm), steps |-> st],
       steps |-> st,
       calls |-> <<Call("query_model", <<>>)>>]

\* OutOfScopeOrGeneral with the finance-keyword test left out
OutOfScopeOrGeneral_NoScopeTest(llm) ==
  GeneralLLM(llm)

\* the end of run, reached when no dispatch branch returned
OutOfScopeOrGeneral(llm) ==
  IF ~is_finance_query(query)
  THEN [env |-> [type |-> "llm", intent |-> "out_of_scope",
                 response |-> "Financial Markets Assistant", steps |-> steps],
        steps |-> steps,
        calls |-> <<>>]
  ELSE GeneralLLM(llm)

\* CompareBranch that looks up the price of the primary ticker before comparing
CompareBranch_PriceThenCompare(fetch, llm) ==
  IF Len(tickers) < 2
  THEN [env |-> [type |-> "error",
                 message |-> "I need two stock symbols to compare."],
        steps |-> steps,
        calls |-> <<>>]
  ELSE LET st == Append(steps, "Comparing stocks")
       IN  [env |-> [type |-> "tool", intent |-> "compare", tickers |-> tickers,
                     data |-> Payload("compare_stocks", fetch),
                     summary |-> query_model(llm), steps |-> st],
            steps |-> st,
            calls |-> <<Call("get_price", <<primary>>), Call("compare_stocks", tickers)>>
                       \o CompareLoop(tickers) \o <<Call("query_model", <<>>)>>]

\* the branch `if intent == "compare"` of run
CompareBranch(fetch, llm) ==
  IF Len(tickers) < 2
  THEN [env |-> [type |-> "error",
                 message |-> "I need two stock symbols to compare."],
        steps |-> steps,
        calls |-> <<>>]
  ELSE LET st == Append(steps, "Comparing stocks")
       IN  [env |-> [type |-> "tool", intent |-> "compare", tickers |-> tickers,
                     data |-> Payload("compare_stocks", fetch),
                     summary |-> query_model(llm), steps |-> st],
            steps |-> st,
            calls |-> <<Call("compare_stocks", tickers)>> \o CompareLoop(tickers)
                       \o <<Call("query_model", <<>>)>>]

\* NewsBranch without the test `if not primary`
NewsBranch_NoTickerTest(fetch) ==
  LET st == Append(steps, "Fetching news")
  IN  [env |-> [type |-> "tool", intent |-> "news", ticker |-> primary,
                data |-> Payload("get_news", fetch), steps |-> st],
       steps |-> st,
       calls |-> <<Call("get_news", <<primary>>)>>]

\* the branch `if intent == "news"` of run
NewsBranch(fetch) ==
  IF primary = None
  THEN [env |-> [type |-> "error", message |-> "Please specify stock for news."],
        steps |-> steps,
        calls |-> <<>>]
  ELSE LET st == Append(steps, "Fetching news")
       IN  [env |-> [type |-> "tool", intent |-> "news", ticker |-> primary,
                     data |-> Payload("get_news", fetch), steps |-> st],
            steps |-> st,
            calls |-> <<Call("get_news", <<primary>>)>>]

\* the rest of run: [envelope, steps, calls] for the given external outcomes
RunDispatch(fetch, llm) ==
  IF intent = "price" /\ primary # None
  THEN LET st == Append(steps, "Fetching price")
       IN  [env |-> [type |-> "tool", intent |-> "price", ticker |-> primary,
                     data |-> Payload("get_price", fetch), steps |-> st],
            steps |-> st,
            calls |-> <<Call("get_price", <<primary>>)>>]
  ELSE IF intent = "financials" /\ primary # None
  THEN LET st == Append(steps, "Fetching financials")
       IN  [env |-> [type |-> "tool", intent |-> "financials", ticker |-> primary,
                     data |-> Payload("get_financials", fetch), steps |-> st],
            steps |-> st,
            calls |-> <<Call("get_financials", <<primary>>)>>]
  ELSE IF intent = "compare"
  THEN CompareBranch(fetch, llm)
  ELSE IF intent = "market"
  THEN LET st == Append(steps, "Fetching market summary")
       IN  [env |-> [type |-> "tool", intent |-> "market_summary",
                     data |-> Payload("get_market_summary", fetch), steps |-> st],
            steps |-> st,
            calls |-> <<Call("get_market_summary", <<>>)>>]
  ELSE IF intent = "news"
  THEN NewsBranch(fetch)
  ELSE OutOfScopeOrGeneral(llm)

\* the dispatch on intent, the out-of-scope test and the LLM fallback, to the return
Dispatch(fetch, llm) ==
  /\ pc = "dispatch"
  /\ LET r == RunDispatch(fetch, llm)
     IN  /\ envelope' = r.env
         /\ steps' = r.steps
         /\ calls' = calls \o r.calls
  /\ pc' = "done"
  /\ UNCHANGED <<query, tokens, suffixIx, found, inserted, tickers, intent, answers,
                 agent>>

\* the caller has the envelope; the agent is ready for the next query
RunReturn ==
  /\ pc = "done"
  /\ pc' = "idle"
  /\ query' = <<>>
  /\ steps' = <<>>
  /\ tickers' = <<>>
  /\ found' = {}
  /\ inserted' = <<>>
  /\ intent' = None
  /\ envelope' = NoEnvelope
  /\ calls' = <<>>
  /\ answers' = <<>>
  /\ UNCHANGED <<tokens, suffixIx, agent>>

\* RunReturn, and the run is recorded unless one already is
RunReturnRecorded ==
  /\ RunReturn
  /\ runLog' = IF Has(runLog, "pending")
                THEN [query |-> query, answers |-> runAnswers, tickers |-> tickers,
                      envelope |-> envelope]
                ELSE runLog
  /\ runAnswers' = <<>>
  /\ UNCHANGED <<cArgs, cPrev>>

----------------------------------------------------------------------------
(* classify_intent as a function of its two arguments *)

TickerLists ==
  UNION {[1..n -> {"TCS.NS", "INFY.NS"}] : n \in 0..MaxTickers}

\* ClassifyCall that classifies with the ticker list of the run in progress,
\* when there is one, instead of its argument
ClassifyCall_UsesRunTickers ==
  /\ cLabel = "pending"
  /\ cLabel' = classify_intent(Lower(Text(cQuery)),
                               IF tickers # <<>> THEN tickers ELSE cTickers)
  /\ UNCHANGED <<cQuery, cTickers, cPrev, runLog, runAnswers>>

\* label = classify_intent(query.lower(), tickers)
ClassifyCall ==
  /\ cLabel = "pending"
  /\ cLabel' = classify_intent(Lower(Text(cQuery)), cTickers)
  /\ UNCHANGED <<cQuery, cTickers, cPrev, runLog, runAnswers>>

\* the same call once more: the first label is kept for comparison
ClassifyAgain ==
  /\ cLabel # "pending"
  /\ Has(cPrev, "pending")
  /\ cPrev' = [label |-> cLabel]
  /\ cLabel' = "pending"
  /\ UNCHANGED <<cQuery, cTickers, runLog, runAnswers>>

----------------------------------------------------------------------------
(* backend/langgraph_integration.py *)

\* the truth value of a dict: false when empty
Truthy(d) ==
  DOMAIN d # {}

\* dict.get(key, default)
GetOr(d, key, default) ==
  IF key \in DOMAIN d THEN d[key] ELSE default

\* drop_percentage >= num / den, for drop_percentage =
\* ((previous - current) / previous) * 100 and previous # 0, den > 0
DropAtLeast(current, previous, num, den) ==
  IF previous > 0
  THEN (previous - current) * 100 * den >= num * previous
  ELSE (previous - current) * 100 * den <= num * previous

\* the float NaN, as a number no request carries and no computation produces
NaN ==
  -1000000

\* drop_percentage >= threshold * num / den as floats compare: false for NaN
DropAtLeastOf(current, previous, threshold, num, den) ==
  /\ threshold # NaN
  /\ DropAtLeast(current, previous, threshold * num, den)

\* the integer nearest to n / d for d > 0, ties to even
RoundDiv(n, d) ==
  LET fl == IF n >= 0 THEN n \div d ELSE -((-n + d - 1) \div d)
      r2 == 2 * (n - fl * d)
  IN  IF r2 < d THEN fl
      ELSE IF r2 > d THEN fl + 1
      ELSE IF fl % 2 = 0 THEN fl ELSE fl + 1

\* round(drop_percentage, 2), in hundredths of a percent
RoundedDrop(current, previous) ==
  IF previous > 0
  THEN RoundDiv((previous - current) * 10000, previous)
  ELSE RoundDiv((current - previous) * 10000, -previous)

Failure(msg) ==
  [success |-> FALSE, error |-> msg]

\* NAVDropBody with alert_triggered computed as drop_percentage > threshold
NAVDropBody_StrictAlert(price_data, threshold) ==
  IF ~Has(price_data, "current_price") \/ ~Has(price_data, "previous_price")
  THEN Failure("Missing price data")
  ELSE LET current_price == price_data.current_price
           previous_price == price_data.previous_price
       IN  IF previous_price = 0
           THEN [raised |-> "ZeroDivisionError"]
           ELSE
           LET alert_triggered ==
                 /\ DropAtLeastOf(current_price, previous_price, threshold, 1, 1)
                 /\ (previous_price - current_price) * 100 # threshold * previous_price
               severity ==
                 IF DropAtLeastOf(current_price, previous_price, threshold, 3, 2)
                 THEN "HIGH"
                 ELSE IF DropAtLeastOf(current_price, previous_price, threshold, 1, 1)
                 THEN "MEDIUM"
                 ELSE "LOW"
           IN  [success |-> TRUE,
                data |-> [drop_percentage |-> RoundedDrop(current_price, previous_price),
                          threshold |-> threshold,
                          alert_triggered |-> alert_triggered,
                          severity |-> severity,
                          current_price |-> current_price,
                          previous_price |-> previous_price]]

\* NAVDropBody with severity HIGH from twice the threshold instead of 1.5 times
NAVDropBody_HighAtDouble(price_data, threshold) ==
  IF ~Has(price_data, "current_price") \/ ~Has(price_data, "previous_price")
  THEN Failure("Missing price data")
  ELSE LET current_price == price_data.current_price
           previous_price == price_data.previous_price
       IN  IF previous_price = 0
           THEN [raised |-> "ZeroDivisionError"]
           ELSE
           LET alert_triggered == DropAtLeastOf(current_price, previous_price, threshold, 1, 1)
               severity ==
                 IF DropAtLeastOf(current_price, previous_price, threshold, 2, 1)
                 THEN "HIGH"
                 ELSE IF DropAtLeastOf(current_price, previous_price, threshold, 1, 1)
                 THEN "MEDIUM"
                 ELSE "LOW"
           IN  [success |-> TRUE,
                data |-> [drop_percentage |-> RoundedDrop(current_price, previous_price),
                          threshold |-> threshold,
                          alert_triggered |-> alert_triggered,
                          severity |-> severity,
                          current_price |-> current_price,
                          previous_price |-> previous_price]]

\* the body of the try block of check_NAV_drop: the returned dict, or
\* [raised |-> ...] when the division raises
NAVDropBody(price_data, threshold) ==
  IF ~Has(price_data, "current_price") \/ ~Has(price_data, "previous_price")
  THEN Failure("Missing price data")
  ELSE LET current_price == price_data.current_price
           previous_price == price_data.previous_price
       IN  IF previous_price = 0
           THEN [raised |-> "ZeroDivisionError"]
           ELSE
           LET alert_triggered == DropAtLeastOf(current_price, previous_price, threshold, 1, 1)
               severity ==
                 IF DropAtLeastOf(current_price, previous_price, threshold, 3, 2)
                 THEN "HIGH"
                 ELSE IF DropAtLeastOf(current_price, previous_price, threshold, 1, 1)
                 THEN "MEDIUM"
                 ELSE "LOW"
           IN  [success |-> TRUE,
                data |-> [drop_percentage |-> RoundedDrop(current_price, previous_price),
                          threshold |-> threshold,
                          alert_triggered |-> alert_triggered,
                          severity |-> severity,
                          current_price |-> current_price,
                          previous_price |-> previous_price]]

\* check_NAV_drop without its try/except: a raise escapes to the caller
check_NAV_drop_NoExcept(price_data, threshold) ==
  NAVDropBody(price_data, threshold)

\* check_NAV_drop: the body, with `except Exception` turning a raise into a failure
check_NAV_drop(price_data, threshold) ==
  LET r == NAVDropBody(price_data, threshold)
  IN  IF Has(r, "raised") THEN Failure("division by zero") ELSE r

----------------------------------------------------------------------------
(* backend/utils/yf_utils.py: YFinanceHelper.get_price *)

\* round(x, 2) of a price given in thirds of a cent, in cents
RoundCents(x) ==
  (x + 1) \div 3

SeqMax(xs) ==
  CHOOSE x \in Range(xs) : \A y \in Range(xs) : y <= x

SeqMin(xs) ==
  CHOOSE x \in Range(xs) : \A y \in Range(xs) : x <= y

\* what stock.history(period) does: raises, or returns the Close column
Histories ==
  {[raises |-> TRUE, close |-> <<>>]}
    \cup {[raises |-> FALSE, close |-> c] :
            c \in UNION {[1..n -> 0..MaxClose] : n \in 0..MaxRows}}

\* get_price(ticker) for the history the provider answers with
get_price(ticker, history) ==
  IF history.raises
  THEN [error |-> "Failed to fetch price data"]
  ELSE IF Len(history.close) = 0
  THEN [error |-> "No data found for ticker"]
  ELSE LET close_prices == history.close
           n == Len(close_prices)
           current_price == close_prices[n]
           previous_price == IF n > 1 THEN close_prices[n - 1] ELSE current_price
           high_52w == IF n > 1 THEN SeqMax(close_prices) ELSE current_price
           low_52w == IF n > 1 THEN SeqMin(close_prices) ELSE current_price
       IN  IF high_52w = 0 \/ low_52w = 0
           THEN [error |-> "Failed to fetch price data"]
           ELSE [ticker |-> ticker,
                 current_price |-> RoundCents(current_price),
                 previous_price |-> RoundCents(previous_price)]

fetch_stock_price(ticker, history) ==
  LET price_data == get_price(ticker, history)
  IN  IF "error" \in DOMAIN price_data
      THEN Failure(price_data.error)
      ELSE [success |-> TRUE, data |-> price_data]

----------------------------------------------------------------------------
(* check_NAV_drop as a function of its arguments *)

\* the prices of the documented examples 95/100 and 80/100
ExamplePrices ==
  {80, 95, 100}

\* two prices whose drop, 0.995...%, is below 1 and rounds to 1.0
RoundingPrices ==
  {199, 201}

Prices ==
  (0..MaxPrice) \cup ExamplePrices \cup RoundingPrices

PriceDicts ==
  {EmptyDict}
    \cup {[current_price |-> c] : c \in Prices}
    \cup {[current_price |-> c, previous_price |-> p] : c \in Prices, p \in Prices}

DropThresholds ==
  (-MaxThreshold)..MaxThreshold

NoResult ==
  [pending |-> TRUE]

\* result = check_NAV_drop(price_data, threshold)
DropCall ==
  /\ Has(dRes, "pending")
  /\ dRes' = check_NAV_drop(dData, dThr)
  /\ UNCHANGED <<dData, dThr>>

----------------------------------------------------------------------------
(* backend/NAV_Alert_Trigger.py: the graph START -> fetch -> analyze -> alert -> END *)

NavTickers ==
  {"RELIANCE.NS", "AAPL"}

\* thresholds of a pipeline run: the default 5.0 and two others
NavThresholds ==
  {5, 30, 50}

\* run_financial_graph / __main__: the initial state handed to app.invoke
NavInvoke(ticker, threshold) ==
  /\ navpc = "START"
  /\ navState' = [ticker |-> ticker, threshold |-> threshold,
                  price_data |-> EmptyDict, analysis |-> EmptyDict, alert |-> EmptyDict]
  /\ navTrace' = <<>>
  /\ navpc' = "fetch"

fetch_node(history) ==
  /\ navpc = "fetch"
  /\ navState' = [navState EXCEPT
                    !.price_data = fetch_stock_price(navState.ticker, history)]
  /\ navTrace' = Append(navTrace, "fetch")
  /\ navpc' = "analyze"

\* the dict analyze_node returns under the key "analysis"
analyze_result(state) ==
  LET price_data == GetOr(state.price_data, "data", EmptyDict)
      threshold == GetOr(state, "threshold", 5)
  IN  IF Truthy(price_data)
      THEN check_NAV_drop(price_data, threshold)
      ELSE Failure("No price data")

analyze_node ==
  /\ navpc = "analyze"
  /\ navState' = [navState EXCEPT !.analysis = analyze_result(navState)]
  /\ navTrace' = Append(navTrace, "analyze")
  /\ navpc' = "alert"

\* alert_node without the test of analysis["success"]
alert_result_NoSuccessTest(state) ==
  LET analysis == GetOr(state, "analysis", EmptyDict)
      analysis_data == GetOr(analysis, "data", EmptyDict)
      threshold == GetOr(state, "threshold", 5)
  IN  IF GetOr(analysis_data, "alert_triggered", FALSE)
      THEN [success |-> TRUE,
            alert_status |-> "ALERT",
            drop_percentage |-> GetOr(analysis_data, "drop_percentage", 0),
            threshold |-> threshold,
            severity |-> GetOr(analysis_data, "severity", "MEDIUM")]
      ELSE [success |-> TRUE,
            alert_status |-> "NO ALERT",
            threshold |-> threshold]

\* alert_node deciding for itself: ALERT only when the reported drop is above
\* the threshold
alert_result_DecidesAgain(state) ==
  LET analysis == GetOr(state, "analysis", EmptyDict)
      analysis_data == GetOr(analysis, "data", EmptyDict)
      threshold == GetOr(state, "threshold", 5)
  IN  IF ~GetOr(analysis, "success", FALSE)
      THEN Failure("No analysis data")
      ELSE IF GetOr(analysis_data, "drop_percentage", 0) > threshold * 100
      THEN [success |-> TRUE,
            alert_status |-> "ALERT",
            drop_percentage |-> GetOr(analysis_data, "drop_percentage", 0),
            threshold |-> threshold,
            severity |-> GetOr(analysis_data, "severity", "MEDIUM")]
      ELSE [success |-> TRUE,
            alert_status |-> "NO ALERT",
            threshold |-> threshold]

\* the dict alert_node returns under the key "alert"
alert_result(state) ==
  LET analysis == GetOr(state, "analysis", EmptyDict)
      analysis_data == GetOr(analysis, "data", EmptyDict)
      threshold == GetOr(state, "threshold", 5)
  IN  IF ~GetOr(analysis, "success", FALSE)
      THEN Failure("No analysis data")
      ELSE IF GetOr(analysis_data, "alert_triggered", FALSE)
      THEN [success |-> TRUE,
            alert_status |-> "ALERT",
            drop_percentage |-> GetOr(analysis_data, "drop_percentage", 0),
            threshold |-> threshold,
            severity |-> GetOr(analysis_data, "severity", "MEDIUM")]
      ELSE [success |-> TRUE,
            alert_status |-> "NO ALERT",
            threshold |-> threshold]

\* trigger_alert_if_drop(analysis_result) of langgraph_integration.py
trigger_alert_if_drop(analysis_result) ==
  IF ~GetOr(analysis_result, "success", FALSE)
  THEN Failure("Invalid analysis result")
  ELSE LET data == GetOr(analysis_result, "data", EmptyDict)
       IN  IF GetOr(data, "alert_triggered", FALSE)
           THEN [success |-> TRUE,
                 alert |-> TRUE,
                 severity |-> GetOr(data, "severity", "UNKNOWN"),
                 drop_percentage |-> GetOr(data, "drop_percentage", 0),
                 threshold |-> GetOr(data, "threshold", 5)]
           ELSE [success |-> TRUE, alert |-> FALSE]

\* the graph with an edge from alert back to fetch instead of to END
alert_node_EdgeToFetch ==
  /\ navpc = "alert"
  /\ navState' = [navState EXCEPT !.alert = alert_result(navState)]
  /\ navTrace' = Append(navTrace, "alert")
  /\ navpc' = IF Len(navTrace) < 4 THEN "fetch" ELSE "END"

\* the node alert and its edge to END
alert_node ==
  /\ navpc = "alert"
  /\ navState' = [navState EXCEPT !.alert = alert_result(navState)]
  /\ navTrace' = Append(navTrace, "alert")
  /\ navpc' = "END"

\* app.invoke returns the final state; the next invocation starts afresh
NavReturn ==
  /\ navpc = "END"
  /\ navpc' = "START"
  /\ navState' = [ticker |-> None]
  /\ navTrace' = <<>>

----------------------------------------------------------------------------
(* backend/models/market_data.py, backend/routers/finance.py:                *)
(* POST /run_NAV_Alert_Trigger                                               *)

\* the ticker of a request body
RequestTickers ==
  {"", "  ", " aapl ", "AAPL", "tcs.ns"}

\* the threshold of a request body: numbers around the limits 0 and 100, and NaN
RequestThresholds ==
  {-5, 0, 1, 5, 100, 101, NaN}

\* the JSON bodies posted: either field may be left out
Requests ==
  {[ticker |-> t, threshold |-> th] : t \in RequestTickers, th \in RequestThresholds}
    \cup {[ticker |-> t] : t \in RequestTickers}
    \cup {[threshold |-> th] : th \in RequestThresholds}

Rejected ==
  [rejected |-> TRUE]

\* validator ticker_not_empty: the value of the field, or Rejected
ticker_not_empty(v) ==
  IF v = "" \/ Len(Strip(Chars[v])) = 0
  THEN Rejected
  ELSE [value |-> Str(Upper(Strip(Chars[v])), 1, Len(Strip(Chars[v])))]

\* validator threshold_valid: `v <= 0 or v > 100` is false for NaN
threshold_valid(v) ==
  IF v # NaN /\ (v <= 0 \/ v > 100)
  THEN Rejected
  ELSE [value |-> v]

\* FinancialGraphRequest(**body): the validated model, or Rejected; the ticker
\* is required, the default of the threshold is not validated
FinancialGraphRequest(body) ==
  LET ticker == IF Has(body, "ticker") THEN ticker_not_empty(body.ticker) ELSE Rejected
      threshold == IF Has(body, "threshold") THEN threshold_valid(body.threshold)
                   ELSE [value |-> 5]
  IN  IF Has(ticker, "rejected") \/ Has(threshold, "rejected")
      THEN Rejected
      ELSE [ticker |-> ticker.value, threshold |-> threshold.value]

\* a request arrives: the body is validated, and run_financial_graph is
\* entered with the validated model or the request is answered 422
PostRequest(body) ==
  /\ navpc = "START"
  /\ epRequest' = body
  /\ LET request == FinancialGraphRequest(body)
     IN  IF Has(request, "rejected")
         THEN /\ epResponse' = [status |-> 422]
              /\ UNCHANGED navVars
         ELSE /\ epResponse' = NoResult
              /\ NavInvoke(request.ticker, request.threshold)

\* langgraph_app.invoke raises: except Exception -> HTTPException(500)
InvokeRaises ==
  /\ navpc \in {"fetch", "analyze", "alert"}
  /\ Has(epResponse, "pending")
  /\ epResponse' = [status |-> 500, detail |-> "Error running LangGraph workflow."]
  /\ navpc' = "START"
  /\ navState' = [ticker |-> None]
  /\ navTrace' = <<>>
  /\ UNCHANGED epRequest

\* return result: the final state is the body of the response
EndpointReturn ==
  /\ epResponse' = [status |-> 200, body |-> navState]
  /\ NavReturn
  /\ UNCHANGED epRequest

----------------------------------------------------------------------------
(* ui/pages/AI_Assistant.py: the chat page, one script run per interaction *)

\* texts typed into the input box, as sequences of words
ChatTexts ==
  {<<"Yes">>, <<" OK ">>, <<"Yes", "TCS">>, <<"Price", "TCS">>}

\* what voice_input() returns: nothing, or the recognized text
VoiceTexts ==
  {<<>>, <<"Yes">>}

\* the suggested queries
sugs ==
  << <<"Price", "of", "INFY">>,
     <<"Is", "TCS", "a", "good", "stock?">>,
     <<"Compare", "INFY", "and", "TCS">>,
     <<"Give", "me", "market", "updates">>,
     <<"Best", "stock", "for", "long", "term", "in", "India">>,
     <<"INFY", "news">> >>

\* st.session_state.last_finance_query: None, or a remembered query
NoQuery ==
  [none |-> TRUE]

Remembered(q) ==
  [value |-> q]

confirmations ==
  {"yes", "yep", "yeah", "ok", "okay", "sure", "fine", "go ahead"}

\* is_confirmation(text): text.strip().lower() in confirmations
is_confirmation(text) ==
  \E k \in confirmations : Lower(Strip(Text(text))) = Chars[k]

append_chat(history, role, message) ==
  Append(history, [role |-> role, message |-> message])

\* format_bot_response_from_agent: the kind of text shown for an envelope
format_bot_response_from_agent(agent_response) ==
  LET r_type == GetOr(agent_response, "type", None)
      resp_intent == GetOr(agent_response, "intent", None)
      data == GetOr(agent_response, "data", EmptyDict)
      response_text == GetOr(agent_response, "response", "")
  IN  IF resp_intent = "out_of_scope" THEN "Financial Markets Assistant"
      ELSE IF r_type = "llm"
      THEN (IF response_text # "" THEN response_text ELSE "processed")
      ELSE IF resp_intent = "price" /\ Has(data, "result") THEN "Live Price"
      ELSE IF resp_intent = "financials" /\ Has(agent_response, "data")
      THEN "Financial Snapshot"
      ELSE IF resp_intent = "compare" /\ Has(agent_response, "data")
      THEN "Stock Comparison"
      ELSE IF resp_intent = "news" /\ Has(agent_response, "data")
      THEN "Latest news"
      ELSE IF resp_intent = "market_summary" /\ Has(agent_response, "data")
      THEN "Market Summary"
      ELSE IF Has(data, "error") THEN "Failed to fetch"
      ELSE (IF response_text # "" THEN response_text ELSE "processed")

\* the user types a text (or clears the box) and sends it: the script runs
\* with the text in the box
Submit(text) ==
  /\ chatpc = "idle"
  /\ Len(chat_history) < MaxMessages
  /\ user_query' = text
  /\ final_query' = text
  /\ submitted' = IF text # <<>> THEN submitted + 1 ELSE submitted
  /\ chatpc' = "bar"
  /\ UNCHANGED <<chat_history, last_finance_query, processing, agentVars>>

\* the microphone button: final_query = spoken, the typed text is not used
ClickVoice(spoken) ==
  /\ chatpc = "idle"
  /\ Len(chat_history) < MaxMessages
  /\ final_query' = spoken
  /\ submitted' = IF spoken # <<>> THEN submitted + 1 ELSE submitted
  /\ chatpc' = "bar"
  /\ UNCHANGED <<chat_history, last_finance_query, processing, user_query, agentVars>>

\* a suggested-query button: append_chat("user", s); agent.run(s)
ClickSuggestion(i) ==
  /\ chatpc = "idle"
  /\ Len(chat_history) < MaxMessages
  /\ chat_history' = append_chat(chat_history, "user", sugs[i])
  /\ final_query' = sugs[i]
  /\ RunCall(sugs[i])
  /\ submitted' = submitted + 1
  /\ chatpc' = "suggest"
  /\ UNCHANGED <<last_finance_query, processing, user_query>>

\* a theme button or a history button of the sidebar: st.rerun()
ClickSidebar ==
  /\ chatpc = "idle"
  /\ Len(chat_history) < MaxMessages
  /\ chatpc' = "rerun"
  /\ UNCHANGED <<chat_history, last_finance_query, processing, user_query, final_query,
                 submitted, agentVars>>

\* the script run after st.rerun(): no button is clicked, the box keeps its text
Rerun ==
  /\ chatpc = "rerun"
  /\ final_query' = user_query
  /\ chatpc' = "bar"
  /\ UNCHANGED <<chat_history, last_finance_query, processing, user_query, submitted,
                 agentVars>>

\* the rest of the suggested-query handler, once agent.run has returned
SuggestHandled ==
  /\ chatpc = "suggest"
  /\ pc = "done"
  /\ LET resp_intent == GetOr(envelope, "intent", None)
     IN  /\ last_finance_query' =
              IF resp_intent # "out_of_scope" THEN Remembered(final_query) ELSE NoQuery
         /\ chat_history' =
              append_chat(chat_history, "bot", format_bot_response_from_agent(envelope))
         /\ IF resp_intent # "out_of_scope"
            THEN /\ chatpc' = "rerun"
                 /\ UNCHANGED final_query
            ELSE /\ chatpc' = "bar"
                 /\ final_query' = user_query
  /\ RunReturn
  /\ UNCHANGED <<processing, user_query, submitted>>

\* InputBar that runs the agent on the submitted text even for a confirmation
InputBar_NoConfirmation ==
  /\ chatpc = "bar"
  /\ IF final_query # <<>> /\ ~processing
     THEN /\ processing' = TRUE
          /\ chat_history' = append_chat(chat_history, "user", final_query)
          /\ RunCall(final_query)
          /\ chatpc' = "input"
     ELSE /\ processing' = FALSE
          /\ chatpc' = "idle"
          /\ UNCHANGED <<chat_history, agentVars>>
  /\ UNCHANGED <<last_finance_query, user_query, final_query, submitted>>

\* the input handler up to agent.run(effective_query), or its else branch
InputBar ==
  /\ chatpc = "bar"
  /\ IF final_query # <<>> /\ ~processing
     THEN LET effective_query ==
                IF is_confirmation(final_query) /\ Has(last_finance_query, "value")
                THEN last_finance_query.value
                ELSE final_query
          IN  /\ processing' = TRUE
              /\ chat_history' = append_chat(chat_history, "user", final_query)
              /\ RunCall(effective_query)
              /\ chatpc' = "input"
     ELSE /\ processing' = FALSE
          /\ chatpc' = "idle"
          /\ UNCHANGED <<chat_history, agentVars>>
  /\ UNCHANGED <<last_finance_query, user_query, final_query, submitted>>

\* InputHandled that keeps the remembered query after an out-of-scope response
InputHandled_KeepOnOutOfScope ==
  /\ chatpc = "input"
  /\ pc = "done"
  /\ LET resp_intent == GetOr(envelope, "intent", None)
     IN  /\ last_finance_query' =
              IF resp_intent # "out_of_scope" THEN Remembered(query)
              ELSE last_finance_query
         /\ chat_history' =
              append_chat(chat_history, "bot", format_bot_response_from_agent(envelope))
         /\ IF resp_intent # "out_of_scope"
            THEN /\ chatpc' = "rerun"
                 /\ UNCHANGED processing
            ELSE /\ chatpc' = "idle"
                 /\ processing' = FALSE
  /\ RunReturn
  /\ UNCHANGED <<user_query, final_query, submitted>>

\* the rest of the input handler, once agent.run has returned
InputHandled ==
  /\ chatpc = "input"
  /\ pc = "done"
  /\ LET resp_intent == GetOr(envelope, "intent", None)
     IN  /\ last_finance_query' =
              IF resp_intent # "out_of_scope" THEN Remembered(query) ELSE NoQuery
         /\ chat_history' =
              append_chat(chat_history, "bot", format_bot_response_from_agent(envelope))
         /\ IF resp_intent # "out_of_scope"
            THEN /\ chatpc' = "rerun"
                 /\ UNCHANGED processing
            ELSE /\ chatpc' = "idle"
                 /\ processing' = FALSE
  /\ RunReturn
  /\ UNCHANGED <<user_query, final_query, submitted>>

----------------------------------------------------------------------------
(* ui/components/alert_config.py and ui/components/utils_ui.py: send_alert_config *)

\* the two modules that define send_alert_config
WebhookImpls ==
  {"alert_config", "utils_ui"}

\* arguments of a direct call
WebhookArgs ==
  {[email |-> "user@example.com", ticker |-> t, threshold_type |-> "Percentage Drop",
    threshold_value |-> v] : t \in {"tvs", "INFY"}, v \in {1, 5}}

StatusCodes ==
  {200, 201, 202, 204, 301, 400, 500}

\* what response.json() gives: a dict with a message, a dict without, or it raises
ResponseBodies ==
  {"message", "empty", "not json"}

\* what requests.post does: it returns a response or raises
WebhookAnswers ==
  {[kind |-> "response", status |-> s, body |-> b] :
     s \in StatusCodes, b \in ResponseBodies}
    \cup {[kind |-> k, status |-> 0, body |-> "none"] :
            k \in {"ConnectionError", "Timeout", "Exception"}}

\* the JSON payload of the POST
WebhookPayload(impl, args) ==
  IF impl = "alert_config"
  THEN [email |-> args.email, ticker |-> args.ticker,
        threshold_type |-> args.threshold_type,
        threshold_value |-> args.threshold_value]
  ELSE [email |-> args.email, ticker |-> Upper(Chars[args.ticker]),
        threshold_type |-> args.threshold_type,
        threshold_value |-> args.threshold_value, timestamp |-> "now"]

\* the tuple (success, message) returned for an answer of requests.post
send_alert_config(impl, answer) ==
  IF answer.kind # "response"
  THEN [success |-> FALSE,
        message |-> IF impl = "alert_config" THEN "Request failed"
                    ELSE IF answer.kind = "ConnectionError" THEN "Could not connect"
                    ELSE IF answer.kind = "Timeout" THEN "Request timed out"
                    ELSE "Error"]
  ELSE IF impl = "alert_config"
  THEN IF answer.status \in {200, 201, 202}
       THEN [success |-> TRUE,
             message |-> IF answer.body = "message" THEN "message of the webhook"
                         ELSE "Alert configuration saved successfully!"]
       ELSE [success |-> FALSE, message |-> "Webhook error"]
  ELSE IF answer.status = 200
       THEN [success |-> TRUE, message |-> "Alert configured successfully"]
       ELSE [success |-> FALSE, message |-> "Failed to configure alert"]

\* success, message = send_alert_config(...): one POST, then the result
SendAlertConfig ==
  /\ Has(whResult, "pending")
  /\ whPosts' = Append(whPosts, WebhookPayload(whImpl, whArgs))
  /\ whResult' = send_alert_config(whImpl, whAnswer)
  /\ UNCHANGED <<whImpl, whArgs, whAnswer, formErrors>>

----------------------------------------------------------------------------
(* ui/components/alert_config.py: render_alert_config, the submitted form *)

Digits ==
  {"0", "1", "2", "3", "4", "5", "6", "7", "8", "9"}

\* [a-zA-Z0-9._%+-]
EmailLocalChar(c) ==
  IsWordChar(c) \/ c \in Digits \/ c \in {".", "_", "%", "+", "-"}

\* [a-zA-Z0-9.-]
EmailDomainChar(c) ==
  IsWordChar(c) \/ c \in Digits \/ c \in {".", "-"}

\* re.match(email_pattern, email): local part, "@", domain, ".", two letters or more
MatchesEmailPattern(text) ==
  \E i \in 2..Len(text) :
    /\ text[i] = "@"
    /\ \A k \in 1..(i - 1) : EmailLocalChar(text[k])
    /\ \E j \in (i + 2)..(Len(text) - 2) :
         /\ text[j] = "."
         /\ \A k \in (i + 1)..(j - 1) : EmailDomainChar(text[k])
         /\ \A k \in (j + 1)..Len(text) : IsWordChar(text[k])

\* what is typed into the form: the number input keeps the threshold within
\* 0.1 .. 100
FormEmails ==
  {"", "user@example.com", "user@example", "userexample.com", "user@example.c",
   " user@example.com", "u.s-r+1@ex-ample.co.in", "user@.com"}

FormTickers ==
  {"", "tvs", "AAPL"}

FormInputs ==
  {[email |-> e, ticker |-> t, threshold_type |-> "Percentage Drop",
    threshold_value |-> v] : e \in FormEmails, t \in FormTickers, v \in {1, 5}}

\* the list `errors` built by the validation of the submitted form
FormValidation(email, ticker, threshold_value) ==
  (IF email = "" THEN <<"Email address is required">>
   ELSE IF ~MatchesEmailPattern(Chars[email]) THEN <<"Invalid email address format">>
   ELSE <<>>)
  \o (IF ticker = "" THEN <<"Stock ticker is required">> ELSE <<>>)
  \o (IF threshold_value <= 0 THEN <<"Threshold value must be greater than 0">>
      ELSE <<>>)

\* SubmitForm that calls send_alert_config whatever the validation found
SubmitForm_PostsDespiteErrors ==
  /\ Has(formErrors, "pending")
  /\ LET ticker == Str(Upper(Chars[whArgs.ticker]), 1, Len(Chars[whArgs.ticker]))
         errors == FormValidation(whArgs.email, ticker, whArgs.threshold_value)
     IN  /\ formErrors' = [errors |-> errors]
         /\ whPosts' = Append(whPosts,
                              WebhookPayload("alert_config",
                                             [whArgs EXCEPT !.ticker = ticker]))
         /\ whResult' = send_alert_config("alert_config", whAnswer)
  /\ UNCHANGED <<whImpl, whArgs, whAnswer>>

\* `if submitted:` of render_alert_config: validation, then the errors are
\* shown or send_alert_config is called
SubmitForm ==
  /\ Has(formErrors, "pending")
  /\ LET ticker == Str(Upper(Chars[whArgs.ticker]), 1, Len(Chars[whArgs.ticker]))
         errors == FormValidation(whArgs.email, ticker, whArgs.threshold_value)
     IN  /\ formErrors' = [errors |-> errors]
         /\ IF errors # <<>>
            THEN UNCHANGED <<whPosts, whResult>>
            ELSE /\ whPosts' = Append(whPosts,
                                      WebhookPayload("alert_config",
                                                     [whArgs EXCEPT !.ticker = ticker]))
                 /\ whResult' = send_alert_config("alert_config", whAnswer)
  /\ UNCHANGED <<whImpl, whArgs, whAnswer>>

----------------------------------------------------------------------------
(* Specifications *)

AgentInit ==
  /\ pc = "idle"
  /\ query = <<>>
  /\ steps = <<>>
  /\ tokens = <<>>
  /\ suffixIx = 0
  /\ found = {}
  /\ inserted = <<>>
  /\ tickers = <<>>
  /\ intent = None
  /\ envelope = NoEnvelope
  /\ calls = <<>>
  /\ answers = <<>>
  /\ agent = [model |-> "AgentModel"]

ClassifyIdle ==
  /\ cQuery = <<>>
  /\ cTickers = <<>>
  /\ cLabel = "pending"
  /\ cPrev = NoResult
  /\ runLog = NoResult
  /\ runAnswers = <<>>

DropIdle ==
  /\ dData = EmptyDict
  /\ dThr = 0
  /\ dRes = NoResult

NavIdle ==
  /\ navpc = "START"
  /\ navState = [ticker |-> None]
  /\ navTrace = <<>>

\* the session state after the first script run of the chat page
ChatIdle ==
  /\ chat_history = <<>>
  /\ last_finance_query = NoQuery
  /\ processing = FALSE
  /\ user_query = <<>>
  /\ final_query = <<>>
  /\ submitted = 0
  /\ chatpc = "idle"

WebhookIdle ==
  /\ whImpl = "alert_config"
  /\ whArgs = [email |-> ""]
  /\ whAnswer = [kind |-> "none"]
  /\ whPosts = <<>>
  /\ whResult = [success |-> FALSE]
  /\ formErrors = NoResult
  /\ epRequest = EmptyDict
  /\ epResponse = NoResult

Init ==
  /\ AgentInit
  /\ ClassifyIdle
  /\ DropIdle
  /\ NavIdle
  /\ ChatIdle
  /\ WebhookIdle

Next ==
  \/ RunStart /\ UNCHANGED <<classifyVars, dropVars, navVars, uiVars>>
  \/ ExtractToken /\ UNCHANGED <<classifyVars, dropVars, navVars, uiVars>>
  \/ \E o \in ValidationOutcomes :
       ValidateCandidate(o) /\ UNCHANGED <<classifyVars, dropVars, navVars, uiVars>>
  \/ \E l \in ListsOf(found) :
       ExtractReturn(l) /\ UNCHANGED <<classifyVars, dropVars, navVars, uiVars>>
  \/ Classify /\ UNCHANGED <<classifyVars, dropVars, navVars, uiVars>>
  \/ \E f \in FetchOutcomes, l \in LlmOutcomes :
       Dispatch(f, l) /\ UNCHANGED <<classifyVars, dropVars, navVars, uiVars>>
  \/ RunReturn /\ UNCHANGED <<classifyVars, dropVars, navVars, uiVars>>

Spec ==
  Init /\ [][Next]_vars

\* classify_intent on every query and every ticker list
ClassifyInit ==
  /\ AgentInit
  /\ DropIdle
  /\ NavIdle
  /\ ChatIdle
  /\ WebhookIdle
  /\ cQuery \in Queries
  /\ cTickers \in TickerLists
  /\ cLabel = "pending"
  /\ cPrev = NoResult
  /\ runLog = NoResult
  /\ runAnswers = <<>>

ClassifyNext ==
  ClassifyCall /\ UNCHANGED <<agentVars, dropVars, navVars, uiVars>>

ClassifySpec ==
  ClassifyInit /\ [][ClassifyNext]_vars

\* check_NAV_drop on every price dict and every threshold
DropInit ==
  /\ AgentInit
  /\ ClassifyIdle
  /\ NavIdle
  /\ ChatIdle
  /\ WebhookIdle
  /\ dData \in PriceDicts
  /\ dThr \in DropThresholds
  /\ dRes = NoResult

DropNext ==
  DropCall /\ UNCHANGED <<agentVars, classifyVars, navVars, uiVars>>

DropSpec ==
  DropInit /\ [][DropNext]_vars

NavNext ==
  \/ \E t \in NavTickers, th \in NavThresholds :
       NavInvoke(t, th) /\ UNCHANGED <<agentVars, classifyVars, dropVars, uiVars>>
  \/ \E h \in Histories :
       fetch_node(h) /\ UNCHANGED <<agentVars, classifyVars, dropVars, uiVars>>
  \/ analyze_node /\ UNCHANGED <<agentVars, classifyVars, dropVars, uiVars>>
  \/ alert_node /\ UNCHANGED <<agentVars, classifyVars, dropVars, uiVars>>
  \/ NavReturn /\ UNCHANGED <<agentVars, classifyVars, dropVars, uiVars>>

NavSpec ==
  Init /\ [][NavNext]_vars

\* app.invoke runs the graph synchronously: a node that is due is executed
\* the chat page: the user's interactions, the script runs they cause and the
\* steps of agent.run called by the two handlers
ChatNext ==
  \/ \E text \in ChatTexts \cup {<<>>} :
       Submit(text) /\ UNCHANGED <<classifyVars, dropVars, navVars, webhookVars, epVars>>
  \/ \E spoken \in VoiceTexts :
       ClickVoice(spoken) /\ UNCHANGED <<classifyVars, dropVars, navVars, webhookVars, epVars>>
  \/ \E i \in DOMAIN sugs :
       ClickSuggestion(i) /\ UNCHANGED <<classifyVars, dropVars, navVars, webhookVars, epVars>>
  \/ ClickSidebar /\ UNCHANGED <<classifyVars, dropVars, navVars, webhookVars, epVars>>
  \/ Rerun /\ UNCHANGED <<classifyVars, dropVars, navVars, webhookVars, epVars>>
  \/ InputBar /\ UNCHANGED <<classifyVars, dropVars, navVars, webhookVars, epVars>>
  \/ ExtractToken /\ UNCHANGED <<classifyVars, dropVars, navVars, uiVars>>
  \/ \E o \in ValidationOutcomes :
       ValidateCandidate(o) /\ UNCHANGED <<classifyVars, dropVars, navVars, uiVars>>
  \/ \E l \in ListsOf(found) :
       ExtractReturn(l) /\ UNCHANGED <<classifyVars, dropVars, navVars, uiVars>>
  \/ Classify /\ UNCHANGED <<classifyVars, dropVars, navVars, uiVars>>
  \/ \E f \in FetchOutcomes, l \in LlmOutcomes :
       Dispatch(f, l) /\ UNCHANGED <<classifyVars, dropVars, navVars, uiVars>>
  \/ SuggestHandled /\ UNCHANGED <<classifyVars, dropVars, navVars, webhookVars, epVars>>
  \/ InputHandled /\ UNCHANGED <<classifyVars, dropVars, navVars, webhookVars, epVars>>

ChatSpec ==
  Init /\ [][ChatNext]_vars

\* send_alert_config of either module, on every answer of the webhook
WebhookInit ==
  /\ AgentInit
  /\ ClassifyIdle
  /\ DropIdle
  /\ NavIdle
  /\ ChatIdle
  /\ whImpl \in WebhookImpls
  /\ whArgs \in WebhookArgs
  /\ whAnswer \in WebhookAnswers
  /\ whPosts = <<>>
  /\ whResult = NoResult
  /\ formErrors = NoResult
  /\ epRequest = EmptyDict
  /\ epResponse = NoResult

WebhookNext ==
  SendAlertConfig
    /\ UNCHANGED <<agentVars, classifyVars, dropVars, navVars, pageVars, epVars>>

WebhookSpec ==
  WebhookInit /\ [][WebhookNext]_vars

\* classify_intent called twice with the same arguments, with runs of the agent
\* on other queries before, between and after the two calls
StatelessInit ==
  /\ AgentInit
  /\ DropIdle
  /\ NavIdle
  /\ ChatIdle
  /\ WebhookIdle
  /\ cQuery \in RepeatQueries \cup {<<w>> : w \in Vocabulary}
  /\ cTickers \in TickerLists
  /\ cLabel = "pending"
  /\ cPrev = NoResult
  /\ runLog = NoResult
  /\ runAnswers = <<>>

StatelessNext ==
  \/ ClassifyCall /\ UNCHANGED <<agentVars, dropVars, navVars, uiVars>>
  \/ ClassifyAgain /\ UNCHANGED <<agentVars, dropVars, navVars, uiVars>>
  \/ RepeatStart /\ UNCHANGED <<classifyVars, dropVars, navVars, uiVars>>
  \/ ExtractToken /\ UNCHANGED <<classifyVars, dropVars, navVars, uiVars>>
  \/ \E o \in ValidationOutcomes :
       ValidateCandidate(o) /\ UNCHANGED <<classifyVars, dropVars, navVars, uiVars>>
  \/ \E l \in ListsOf(found) :
       ExtractReturn(l) /\ UNCHANGED <<classifyVars, dropVars, navVars, uiVars>>
  \/ Classify /\ UNCHANGED <<classifyVars, dropVars, navVars, uiVars>>
  \/ \E f \in FetchOutcomes, l \in LlmOutcomes :
       Dispatch(f, l) /\ UNCHANGED <<classifyVars, dropVars, navVars, uiVars>>
  \/ RunReturn /\ UNCHANGED <<classifyVars, dropVars, navVars, uiVars>>

StatelessSpec ==
  StatelessInit /\ [][StatelessNext]_vars

\* the agent run again and again on the repeated queries, one run recorded
RepeatNext ==
  \/ /\ RepeatStart
     /\ UNCHANGED <<runAnswers, cArgs, cPrev, runLog, dropVars, navVars, uiVars>>
  \/ ExtractToken /\ UNCHANGED <<classifyVars, dropVars, navVars, uiVars>>
  \/ \E o \in ValidationOutcomes :
       /\ ValidateCandidate(o)
       /\ runAnswers' = Append(runAnswers, o)
       /\ UNCHANGED <<cArgs, cPrev, runLog, dropVars, navVars, uiVars>>
  \/ \E l \in ListsOf(found) :
       ExtractReturn(l) /\ UNCHANGED <<classifyVars, dropVars, navVars, uiVars>>
  \/ Classify /\ UNCHANGED <<classifyVars, dropVars, navVars, uiVars>>
  \/ \E f \in FetchOutcomes, l \in LlmOutcomes :
       /\ Dispatch(f, l)
       /\ runAnswers' = runAnswers \o <<f, l>>
       /\ UNCHANGED <<cArgs, cPrev, runLog, dropVars, navVars, uiVars>>
  \/ RunReturnRecorded /\ UNCHANGED <<dropVars, navVars, uiVars>>

RepeatSpec ==
  Init /\ [][RepeatNext]_vars

\* the endpoint: requests, the pipeline runs they start and their responses
EndpointNext ==
  \/ \E body \in Requests :
       PostRequest(body)
         /\ UNCHANGED <<agentVars, classifyVars, dropVars, pageVars, webhookVars>>
  \/ \E h \in Histories :
       fetch_node(h) /\ UNCHANGED <<agentVars, classifyVars, dropVars, uiVars>>
  \/ analyze_node /\ UNCHANGED <<agentVars, classifyVars, dropVars, uiVars>>
  \/ alert_node /\ UNCHANGED <<agentVars, classifyVars, dropVars, uiVars>>
  \/ InvokeRaises
       /\ UNCHANGED <<agentVars, classifyVars, dropVars, pageVars, webhookVars>>
  \/ EndpointReturn
       /\ UNCHANGED <<agentVars, classifyVars, dropVars, pageVars, webhookVars>>

EndpointSpec ==
  Init /\ [][EndpointNext]_vars

\* the alert form submitted with every input, on every answer of the webhook
FormInit ==
  /\ AgentInit
  /\ ClassifyIdle
  /\ DropIdle
  /\ NavIdle
  /\ ChatIdle
  /\ whImpl = "alert_config"
  /\ whArgs \in FormInputs
  /\ whAnswer \in WebhookAnswers
  /\ whPosts = <<>>
  /\ whResult = NoResult
  /\ formErrors = NoResult
  /\ epRequest = EmptyDict
  /\ epResponse = NoResult

FormNext ==
  SubmitForm
    /\ UNCHANGED <<agentVars, classifyVars, dropVars, navVars, pageVars, epVars>>

FormSpec ==
  FormInit /\ [][FormNext]_vars

NavFairness ==
  /\ WF_vars(\E h \in Histories :
               fetch_node(h) /\ UNCHANGED <<agentVars, classifyVars, dropVars, uiVars>>)
  /\ WF_vars(analyze_node /\ UNCHANGED <<agentVars, classifyVars, dropVars, uiVars>>)
  /\ WF_vars(alert_node /\ UNCHANGED <<agentVars, classifyVars, dropVars, uiVars>>)

NavLiveSpec ==
  NavSpec /\ NavFairness

----------------------------------------------------------------------------
(* Claims about FinancialAgent.run, checked under Spec *)

DataFetchOps ==
  {"get_price", "get_financials", "compare_stocks", "get_market_summary", "get_news"}

\* the data-fetch operations invoked so far in the current run
FetchCalls ==
  {i \in DOMAIN calls : calls[i].op \in DataFetchOps}

LlmCalls ==
  {i \in DOMAIN calls : calls[i].op = "query_model"}

Returned ==
  pc = "done"

\* the query contains none of the finance keywords
NoFinanceKeyword ==
  \A j \in DOMAIN FINANCE_KEYWORDS : ~Contains(Lower(Text(query)), FINANCE_KEYWORDS[j])

IsOutOfScope(env) ==
  /\ Has(env, "intent")
  /\ env.intent = "out_of_scope"
  /\ env.type = "llm"

C2_NeedTwoTickersError ==
  (/\ Returned
   /\ ContainsAny(Lower(Text(query)),
                  <<"compare", "vs", "versus", "better than", "between">>)
   /\ Len(tickers) = 1)
    => /\ envelope = [type |-> "error",
                      message |-> "I need two stock symbols to compare."]
       /\ \A i \in DOMAIN calls : calls[i].op # "compare_stocks"

\* C3 as stated: extract_tickers returns the resolved symbols without
\* duplicates, in the order in which their tokens first appear in the query,
\* so that tickers[0] is the symbol of the first resolving token.
C3_FirstAppearanceOrder ==
  pc \in {"classify", "dispatch", "done"} => tickers = inserted

\* C4 as stated: every returned envelope, error envelopes included, carries a
\* steps list that starts with the User asked annotation followed by the
\* Detected intent annotation.
C4_StepsOnEveryEnvelope ==
  Returned =>
    /\ Has(envelope, "steps")
    /\ Len(envelope.steps) >= 2
    /\ envelope.steps[1] = "User asked"
    /\ envelope.steps[2] = "Detected intent"

IntentLabels ==
  {"price", "financials", "compare", "market", "news", "general", "out_of_scope",
   "error"}

\* C5 as stated: every returned envelope carries an intent field whose value
\* is one of price, financials, compare, market, news, general, out_of_scope,
\* error.
C5_IntentInClosedSet ==
  Returned => (Has(envelope, "intent") /\ envelope.intent \in IntentLabels)

\* the data-fetch operation that corresponds to a classified intent
FetchOpOf ==
  [price |-> "get_price", financials |-> "get_financials",
   compare |-> "compare_stocks", market |-> "get_market_summary", news |-> "get_news"]

\* at most one of the calls in S, it is the operation of the classified
\* intent, and a tool envelope is returned only after exactly one
OneFetchOfTheIntent(S) ==
  /\ Cardinality(S) <= 1
  /\ \A i \in S :
       /\ Returned
       /\ intent \in DOMAIN FetchOpOf
       /\ calls[i].op = FetchOpOf[intent]
  /\ (Returned /\ envelope.type = "tool") => Cardinality(S) = 1

\* the data-fetch operations invoked by run itself
DispatchedFetchCalls ==
  {i \in FetchCalls : calls[i].by = "agent"}

\* C14 as stated: in a single run at most one of the five data-fetch
\* operations is invoked, at most once, and it is the one of the classified
\* intent; an envelope of type tool is returned only after exactly one such
\* invocation.
C14_OneFetchPerRun ==
  OneFetchOfTheIntent(FetchCalls)

\* C14 amended: the same for the operations run itself invokes; the price
\* lookups issued inside compare_stocks, one per ticker, are not counted.
C14_OneDispatchedFetchPerRun ==
  OneFetchOfTheIntent(DispatchedFetchCalls)

\* a comparison of two tickers: run invokes compare_stocks once, and
\* compare_stocks invokes get_price once per ticker
C14_Witness ==
  /\ Returned
  /\ intent = "compare"
  /\ envelope.type = "tool"
  /\ Cardinality(DispatchedFetchCalls) = 1
  /\ \E i \in DispatchedFetchCalls : calls[i].op = "compare_stocks"
  /\ Cardinality({i \in FetchCalls : calls[i].op = "get_price"}) = 2

\* C15 as stated: whatever external calls fail, run returns an envelope; a
\* failed data fetch appears in it as an {error: message} payload, a failed LLM
\* call as an inline error string in response or summary, and no failed call is
\* retried.
C15_FailuresAppearInEnvelope ==
  Returned =>
    /\ envelope.type \in {"tool", "llm", "error"}
    /\ Has(envelope, "data") =>
         (Has(envelope.data, "result") \/ Has(envelope.data, "error"))
    /\ Has(envelope, "summary") => envelope.summary \in {"completion", "[GROQ ERROR]"}
    /\ (Has(envelope, "response") /\ LlmCalls # {}) =>
         envelope.response \in {"completion", "[GROQ ERROR]"}
    /\ Cardinality(LlmCalls) <= 1
    /\ Cardinality(DispatchedFetchCalls) <= 1

\* the tokens of the query: re.findall on the uppercased text
QueryTokens ==
  Range(Tokenize(Text(query)))

\* the validation calls issued so far in the current run
ValidationCalls ==
  {i \in DOMAIN calls : calls[i].op = "fast_info"}

\* the candidates token + suffix of a set of tokens
CandidatesOf(ts) ==
  {<<t \o Suffixes[j]>> : t \in ts, j \in DOMAIN Suffixes}

AliasCandidates ==
  CandidatesOf(DOMAIN INDIA_TICKER_MAP)

StopWordCandidates ==
  CandidatesOf(COMMON_WORDS)

\* extract_tickers has just returned
Extracted ==
  pc = "classify"

\* C16: a token that is a key of the alias table resolves to the mapped symbol
\* and no validation call is issued for it, whatever the provider would answer;
\* "Price SBI" resolves to [SBIN.NS] with no validation call at all.
C16_AliasNeverValidated ==
  /\ \A i \in ValidationCalls :
       calls[i].arg \notin AliasCandidates
  /\ Extracted =>
       \A t \in QueryTokens \cap DOMAIN INDIA_TICKER_MAP :
         INDIA_TICKER_MAP[t] \in Range(tickers)
  /\ (Extracted /\ query = <<"Price", "SBI">>) =>
       (tickers = <<"SBIN.NS">> /\ ValidationCalls = {})

\* the documented example: SBI resolved from the table, no validation call
C16_Witness ==
  /\ Extracted
  /\ query = <<"Price", "SBI">>
  /\ tickers = <<"SBIN.NS">>
  /\ ValidationCalls = {}

\* C17: when every token of the query is a stop-word, extract_tickers returns
\* the empty list and issues no validation call; a stop-word token is never
\* resolved or validated, even when it would be a valid exchange symbol.
C17_StopWordsNeverResolved ==
  /\ \A i \in ValidationCalls : calls[i].arg \notin StopWordCandidates
  /\ (Extracted /\ QueryTokens \subseteq COMMON_WORDS) =>
       (tickers = <<>> /\ ValidationCalls = {})
  /\ Extracted =>
       \A j \in DOMAIN tickers :
         <<tickers[j]>> \in CandidatesOf(QueryTokens \ COMMON_WORDS)
           \/ \E t \in QueryTokens \ COMMON_WORDS :
                /\ t \in DOMAIN INDIA_TICKER_MAP
                /\ INDIA_TICKER_MAP[t] = tickers[j]

\* a query of two stop-words: no ticker and no validation call
C17_Witness ==
  /\ Extracted
  /\ query = <<"Price", "market">>
  /\ tickers = <<>>
  /\ ValidationCalls = {}

TickerIntents ==
  {"price", "financials", "news"}

\* C13: whenever the classified intent requires a ticker (price, financials,
\* news) and no ticker was resolved, run returns an envelope of type error and
\* invokes no data-fetch operation.
C13_NoTickerIsError ==
  (Returned /\ intent \in TickerIntents /\ tickers = <<>>) =>
    /\ envelope.type = "error"
    /\ Has(envelope, "message")
    /\ FetchCalls = {}

\* a news query without a ticker, answered with the error envelope
C13_Witness ==
  /\ Returned
  /\ intent = "news"
  /\ tickers = <<>>
  /\ envelope.type = "error"
  /\ FetchCalls = {}

----------------------------------------------------------------------------
(* Claims about classify_intent, checked under ClassifySpec *)

Classified ==
  cLabel # "pending"

cText ==
  Lower(Text(cQuery))

\* the seven rules of the priority list: does rule i match
RuleMatches(i) ==
  CASE i = 1 -> \E k \in {"compare", "vs", "versus", "better than", "between"} :
                  Contains(cText, k)
    [] i = 2 -> Contains(cText, "news")
    [] i = 3 -> \E k \in {"market", "indices", "index", "nifty", "sensex"} :
                  Contains(cText, k)
    [] i = 4 -> /\ \E k \in {"profit", "financial", "valuation", "balance"} :
                     Contains(cText, k)
                /\ Len(cTickers) >= 1
    [] i = 5 -> /\ \E k \in {"price", "cmp", "quote", "trading at"} :
                     Contains(cText, k)
                /\ Len(cTickers) >= 1
    [] i = 6 -> /\ Len(cTickers) >= 1
                /\ \E k \in {"long term", "short term", "buy", "sell"} :
                     Contains(cText, k)
    [] i = 7 -> TRUE

\* the label rule i returns
RuleLabel(i) ==
  CASE i = 1 -> IF Len(cTickers) >= 2 THEN "compare" ELSE "general"
    [] i = 2 -> "news"
    [] i = 3 -> "market"
    [] i = 4 -> "financials"
    [] i = 5 -> "price"
    [] i = 6 -> "financials"
    [] i = 7 -> "general"

FirstMatchingRule ==
  CHOOSE i \in 1..7 : RuleMatches(i) /\ \A j \in 1..(i - 1) : ~RuleMatches(j)

\* C6: classify_intent returns the label of the first matching rule of the
\* seven-rule priority list, keyword presence being substring containment in
\* the whole query.
C6_FirstMatchingRuleWins ==
  Classified => cLabel = RuleLabel(FirstMatchingRule)

\* "news market" with a ticker: rules 2 and 3 both match, rule 2 wins
C6_Witness ==
  /\ Classified
  /\ RuleMatches(2)
  /\ RuleMatches(3)
  /\ cTickers # <<>>
  /\ cLabel = "news"

\* C7: classify_intent returns exactly one label for every query and every
\* ticker list, the empty list included; the label is one of compare, news,
\* market, financials, price, general, and it is general whenever none of the
\* rules 1 to 6 matches.
C7_TotalWithDefault ==
  Classified =>
    /\ cLabel \in {"compare", "news", "market", "financials", "price", "general"}
    /\ (\A i \in 1..6 : ~RuleMatches(i)) => cLabel = "general"

\* the empty query with the empty ticker list is labelled general
C7_Witness ==
  /\ Classified
  /\ cQuery = <<>>
  /\ cTickers = <<>>
  /\ cLabel = "general"

----------------------------------------------------------------------------
(* Claims about check_NAV_drop, checked under DropSpec *)

DropSucceeded ==
  /\ ~Has(dRes, "pending")
  /\ Has(dRes, "success")
  /\ dRes.success

AlertAndSeverityConsistent ==
  /\ dRes.data.alert_triggered <=> dRes.data.severity \in {"MEDIUM", "HIGH"}
  /\ dRes.data.severity = "LOW" <=> ~dRes.data.alert_triggered

\* C8 as stated: for every current price, non-zero previous price and
\* threshold, alert_triggered is true exactly when severity is MEDIUM or HIGH
\* and severity is LOW exactly when alert_triggered is false.
C8_ConsistentForEveryThreshold ==
  DropSucceeded => AlertAndSeverityConsistent

\* C8 amended: the same for every threshold that is not negative.
C8_ConsistentForNonNegativeThreshold ==
  (DropSucceeded /\ dThr >= 0) => AlertAndSeverityConsistent

\* a drop exactly at a positive threshold: alert with severity MEDIUM
C8_Witness ==
  /\ DropSucceeded
  /\ dThr > 0
  /\ (dData.previous_price - dData.current_price) * 100 = dThr * dData.previous_price
  /\ dRes.data.alert_triggered
  /\ dRes.data.severity = "MEDIUM"

----------------------------------------------------------------------------
(* Claims about the NAV pipeline, checked under NavSpec *)

Fetched ==
  navpc \in {"analyze", "alert", "END"}

Analyzed ==
  navpc \in {"alert", "END"}

Alerted ==
  navpc = "END"

IsFailure(d) ==
  /\ Has(d, "success")
  /\ ~d.success
  /\ Has(d, "error")

FetchedZeroPrevious ==
  /\ Fetched
  /\ navState.price_data.success
  /\ navState.price_data.data.previous_price = 0

\* C9: with previous_price 0 the analysis is a failure result (success false
\* with an error), whatever the current price and threshold; no arithmetic
\* exception escapes, and the alert stage reports failure and no alert decision.
C9_ZeroPreviousPriceFails ==
  FetchedZeroPrevious =>
    /\ Analyzed => IsFailure(navState.analysis)
    /\ Alerted => (IsFailure(navState.alert) /\ ~Has(navState.alert, "alert_status"))

\* a finished run whose fetched previous price is 0 and current price is not
C9_Witness ==
  /\ FetchedZeroPrevious
  /\ Alerted
  /\ navState.price_data.data.current_price > 0
  /\ IsFailure(navState.alert)

FetchFailed ==
  /\ Fetched
  /\ ~navState.price_data.success

\* C10: after a failed fetch the analyze stage produces success false and no
\* drop percentage, the alert stage produces success false and no alert_status;
\* a run never ends with ALERT or NO ALERT after a failed fetch.
C10_FailsClosed ==
  FetchFailed =>
    /\ Analyzed => (IsFailure(navState.analysis) /\ ~Has(navState.analysis, "data"))
    /\ Alerted => (IsFailure(navState.alert) /\ ~Has(navState.alert, "alert_status"))

\* a finished run whose fetch failed
C10_Witness ==
  /\ FetchFailed
  /\ Alerted
  /\ IsFailure(navState.alert)

----------------------------------------------------------------------------
(* Claims about the topology of the NAV pipeline, checked under NavLiveSpec *)

Chain ==
  <<"fetch", "analyze", "alert">>

\* the nodes executed so far are the chain up to the current position, and a
\* field of the state is written exactly when its node has run
StagesInOrder ==
  /\ navpc \in {"START", "fetch"} => navTrace = <<>>
  /\ navpc = "analyze" => navTrace = SubSeq(Chain, 1, 1)
  /\ navpc = "alert" => navTrace = SubSeq(Chain, 1, 2)
  /\ navpc = "END" => navTrace = Chain
  /\ navpc # "START" =>
       /\ Truthy(navState.price_data) <=> Len(navTrace) >= 1
       /\ Truthy(navState.analysis) <=> Len(navTrace) >= 2
       /\ Truthy(navState.alert) <=> Len(navTrace) >= 3

\* C12: every invocation of the pipeline executes fetch, analyze, alert exactly
\* once each, in that order, with no branch, loop or retry, and then
\* terminates; alert is written only after analysis, analysis only after
\* price_data.
C12_LinearChain ==
  /\ []StagesInOrder
  /\ (navpc = "fetch") ~> (navpc = "END")

\* a finished run: the three nodes ran once each and the three fields are written
C12_Witness ==
  /\ navpc = "END"
  /\ navTrace = Chain
  /\ Truthy(navState.alert)
  /\ Truthy(navState.analysis)
  /\ Truthy(navState.price_data)

----------------------------------------------------------------------------
(* Claims about the chat page, checked under ChatSpec *)

\* a handler has the response of agent.run in hand
HandlingResponse ==
  /\ chatpc \in {"input", "suggest"}
  /\ pc = "done"

ResponseIsOutOfScope ==
  /\ Has(envelope, "intent")
  /\ envelope.intent = "out_of_scope"

\* C18: the remembered last finance query is written only when a handler
\* finishes a query: it becomes the effective query that was run when the
\* response intent is not out_of_scope, and None when it is; no other step
\* writes it, and nothing else of the session decides the next effective query.
C18_LastFinanceQueryUpdateRule ==
  /\ [][IF HandlingResponse /\ pc' = "idle"
        THEN last_finance_query' =
               (IF ResponseIsOutOfScope THEN NoQuery ELSE Remembered(query))
        ELSE last_finance_query' = last_finance_query]_vars
  /\ [](chatpc \in {"input", "suggest"} =>
          \/ query = final_query
          \/ last_finance_query = Remembered(query))

\* a remembered query was forgotten again: the first exchange was answered
\* in scope, the second out of scope
C18_Witness ==
  /\ Len(chat_history) = 4
  /\ chat_history[1].message = <<"Price", "TCS">>
  /\ chat_history[2].message # "Financial Markets Assistant"
  /\ chat_history[4].message = "Financial Markets Assistant"
  /\ last_finance_query = NoQuery
  /\ chatpc = "idle"

\* the texts of ChatTexts that are confirmation words after trimming and lowercasing
ConfirmationTexts ==
  {<<"Yes">>, <<" OK ">>}

\* C19: when the submitted text is a confirmation word and a last finance
\* query is remembered, the agent is run on the remembered query; when nothing
\* is remembered or the text is not a confirmation, it is run on the submitted
\* text; the chat history records the submitted text in both cases.
C19_ConfirmationRunsRememberedQuery ==
  chatpc = "input" =>
    /\ query = (IF final_query \in ConfirmationTexts /\ last_finance_query # NoQuery
                THEN last_finance_query.value
                ELSE final_query)
    /\ \E n \in DOMAIN chat_history :
         /\ chat_history[n].role = "user"
         /\ chat_history[n].message = final_query
         /\ \A m \in DOMAIN chat_history : m > n => chat_history[m].role # "user"

\* " OK " submitted while "Price TCS" is remembered: the agent runs "Price TCS"
C19_Witness ==
  /\ chatpc = "input"
  /\ final_query = <<" OK ">>
  /\ last_finance_query = Remembered(<<"Price", "TCS">>)
  /\ query = <<"Price", "TCS">>
  /\ chat_history[Len(chat_history)].message = <<" OK ">>

----------------------------------------------------------------------------
(* Claims about send_alert_config, checked under WebhookSpec *)

WebhookReturned ==
  ~Has(whResult, "pending")

\* C20 as stated: send_alert_config reports success for every response whose
\* status is in the 2xx range and failure for every other status; it issues
\* exactly one POST per call and never retries.
C20_Any2xxIsSuccess ==
  WebhookReturned =>
    /\ Len(whPosts) = 1
    /\ whAnswer.kind = "response" =>
         (whResult.success <=> (whAnswer.status >= 200 /\ whAnswer.status <= 299))

----------------------------------------------------------------------------
(* Claims about repeated calls, checked under StatelessSpec and RepeatSpec *)

SameRunAgain ==
  /\ Returned
  /\ Has(runLog, "query")
  /\ runLog.query = query
  /\ runLog.answers = runAnswers
  /\ runLog.tickers = tickers

\* C22: run mutates nothing local: no step of a run changes the agent object
\* (the tables are module constants no step writes), and a run with the query
\* and the external answers of an earlier run returns the envelope that run
\* returned, whatever runs were made in between.
C22_RunMutatesNothing ==
  /\ [][agent' = agent]_vars
  /\ [](agent = [model |-> "AgentModel"])
  /\ [](SameRunAgain => envelope = runLog.envelope)

\* "Price AAPL" run a second time with the same answers, after a recorded run
C22_Witness ==
  /\ SameRunAgain
  /\ query = <<"Price", "AAPL">>
  /\ tickers = <<"AAPL">>
  /\ Len(runAnswers) = 5
  /\ envelope.type = "tool"

----------------------------------------------------------------------------
(* Claims about the validation loop of extract_tickers, checked under Spec *)

\* the tokens of the query that go to the validation loop
ValidatedTokens ==
  QueryTokens \ (COMMON_WORDS \cup DOMAIN INDIA_TICKER_MAP)

\* the validation calls issued for the token in hand: the last Len(answers) calls
TokenCall(j) ==
  calls[Len(calls) - Len(answers) + j]

\* C23: for a token that is neither a stop-word nor an alias key the
\* candidates token.NS, token.BO, token are tried in that order, one call
\* after another; the first candidate answered with a last price is accepted
\* and no later candidate of the token is tried; a token gets at most three
\* validation calls, each candidate at most one.
C23_SuffixOrderFirstAccepted ==
  answers # <<>> =>
    LET n == Len(answers)
    IN  /\ n <= Len(Suffixes)
        /\ n <= Len(calls)
        /\ \E t \in ValidatedTokens :
             \A j \in 1..n :
               /\ TokenCall(j).op = "fast_info"
               /\ TokenCall(j).arg = <<t \o Suffixes[j]>>
        /\ \A j \in 1..(n - 1) : answers[j] # "lastPrice"
        /\ answers[n] = "lastPrice" =>
             (pc = "extract" /\ TokenCall(n).arg[1] \in found)
        /\ pc = "validate" => (n < Len(Suffixes) /\ suffixIx = n + 1)
        /\ pc = "extract" => (answers[n] = "lastPrice" \/ n = Len(Suffixes))

\* AAPL: AAPL.NS raises, AAPL.BO is answered with a last price and accepted,
\* the bare symbol is not tried
C23_Witness ==
  /\ pc = "extract"
  /\ answers = <<"raises", "lastPrice">>
  /\ TokenCall(1).arg = <<"AAPL.NS">>
  /\ TokenCall(2).arg = <<"AAPL.BO">>
  /\ "AAPL.BO" \in found

\* a validation call has just been answered, and not with a last price
CandidateFailed ==
  /\ pc = "validate"
  /\ answers' # answers
  /\ answers'[Len(answers')] # "lastPrice"

\* C24: a candidate that fails (the provider raises or returns no last price)
\* adds nothing to the result and raises nothing: the next candidate of the
\* token is tried, and after the third the next token; a token whose three
\* candidates fail contributes nothing, and every alias token of the query is
\* still resolved, whatever failed before or after it.
C24_FailedTokenDroppedSilently ==
  /\ [][CandidateFailed =>
          /\ found' = found
          /\ IF suffixIx < Len(Suffixes)
             THEN pc' = "validate" /\ suffixIx' = suffixIx + 1 /\ tokens' = tokens
             ELSE pc' = "extract" /\ tokens' = Tail(tokens)]_vars
  /\ [][found' # found =>
          \/ pc = "validate" /\ answers'[Len(answers')] = "lastPrice"
          \/ pc = "extract" /\ Head(tokens) \in DOMAIN INDIA_TICKER_MAP
          \/ pc \in {"idle", "done"}]_vars
  /\ [](Extracted =>
          \A t \in (QueryTokens \cap DOMAIN INDIA_TICKER_MAP) \ COMMON_WORDS :
            INDIA_TICKER_MAP[t] \in Range(tickers))

\* "buy TCS": the three candidates of BUY fail, TCS is resolved all the same
C24_Witness ==
  /\ Extracted
  /\ query = <<"buy", "TCS">>
  /\ Cardinality(ValidationCalls) = 3
  /\ \A i \in ValidationCalls : calls[i].arg[1] \in {"BUY.NS", "BUY.BO", "BUY"}
  /\ tickers = <<"TCS.NS">>

----------------------------------------------------------------------------
(* Claims about the comparison rule of classify_intent, checked under ClassifySpec *)

HasComparisonKeyword ==
  ContainsAny(cText, <<"compare", "vs", "versus", "better than", "between">>)

\* the query also matches the keyword of a later rule
HasLaterKeyword ==
  \/ Contains(cText, "news")
  \/ ContainsAny(cText, <<"market", "indices", "index", "nifty", "sensex">>)
  \/ ContainsAny(cText, <<"profit", "financial", "valuation", "balance">>)
  \/ ContainsAny(cText, <<"price", "cmp", "quote", "trading at">>)
  \/ ContainsAny(cText, <<"long term", "short term", "buy", "sell">>)

\* C25: a query with a comparison keyword and fewer than two tickers is
\* labelled general, also when it contains news, a market keyword, or a
\* financial or price keyword together with one ticker; with two or more
\* tickers it is labelled compare.
C25_ComparisonWithoutTwoTickersIsGeneral ==
  (Classified /\ HasComparisonKeyword) =>
    cLabel = (IF Len(cTickers) < 2 THEN "general" ELSE "compare")

\* "Compare news" and "Compare Price" with one ticker, labelled general
C25_Witness ==
  /\ Classified
  /\ cQuery \in {<<"Compare", "news">>, <<"Price", "Compare">>}
  /\ Len(cTickers) = 1
  /\ HasLaterKeyword
  /\ cLabel = "general"

----------------------------------------------------------------------------
(* Claims about the alert stage, checked under NavSpec *)

AnalysisSucceeded ==
  /\ Alerted
  /\ navState.analysis.success

\* the fields of the analysis a report repeats are repeated unchanged
RepeatsAnalysis(report, d) ==
  /\ Has(report, "drop_percentage") => report.drop_percentage = d.drop_percentage
  /\ Has(report, "severity") => report.severity = d.severity
  /\ Has(report, "threshold") => report.threshold = d.threshold

\* C26: the alert stage decides nothing: after a successful analysis
\* alert_status is ALERT exactly when the analysis's alert_triggered is true
\* and NO ALERT otherwise, and the drop percentage, severity and threshold it
\* reports are those of the analysis of the same run; trigger_alert_if_drop
\* repeats the analysis in the same way.
C26_AlertRepeatsAnalysis ==
  AnalysisSucceeded =>
    LET d == navState.analysis.data
        a == navState.alert
        t == trigger_alert_if_drop(navState.analysis)
    IN  /\ a.success
        /\ a.alert_status = (IF d.alert_triggered THEN "ALERT" ELSE "NO ALERT")
        /\ a.threshold = navState.threshold
        /\ RepeatsAnalysis(a, d)
        /\ d.alert_triggered => (Has(a, "drop_percentage") /\ Has(a, "severity"))
        /\ t.success
        /\ t.alert = d.alert_triggered
        /\ RepeatsAnalysis(t, d)

\* a drop of exactly the threshold, 2 cents to 1 with threshold 50: ALERT, with
\* the drop and the severity of the analysis
C26_Witness ==
  /\ AnalysisSucceeded
  /\ navState.threshold = 50
  /\ navState.analysis.data.drop_percentage = 5000
  /\ navState.analysis.data.alert_triggered
  /\ navState.alert.alert_status = "ALERT"
  /\ navState.alert.severity = "MEDIUM"

----------------------------------------------------------------------------
(* Claims about the handling of submitted queries, checked under ChatSpec *)

UserMessages ==
  {i \in DOMAIN chat_history : chat_history[i].role = "user"}

BotMessages ==
  {i \in DOMAIN chat_history : chat_history[i].role = "bot"}

\* C27 as stated: every submitted query is handled exactly once, whatever
\* script reruns follow (the handler's own rerun and later reruns caused by
\* other widgets while the text stays in the input box): the history holds
\* one user message followed by one bot message per submission, and so
\* alternates user, bot.
C27_HandledExactlyOnce ==
  /\ \A i \in DOMAIN chat_history :
       chat_history[i].role = (IF i % 2 = 1 THEN "user" ELSE "bot")
  /\ Cardinality(UserMessages) <= submitted
  /\ chatpc = "idle" =>
       /\ Cardinality(UserMessages) = submitted
       /\ Cardinality(BotMessages) = submitted

----------------------------------------------------------------------------
(* Claims about POST /run_NAV_Alert_Trigger, checked under EndpointSpec *)

\* the request body has a ticker that is not blank and a threshold that is
\* left out or satisfies 0 < threshold <= 100
RequestValid(body) ==
  /\ Has(body, "ticker")
  /\ Strip(Chars[body.ticker]) # <<>>
  /\ Has(body, "threshold") =>
       (body.threshold # NaN /\ 0 < body.threshold /\ body.threshold <= 100)

PipelineRunning ==
  navpc # "START"

\* C28 as stated: the pipeline is started only with a non-empty, trimmed,
\* uppercased ticker and a threshold with 0 < threshold <= 100 (5.0 when left
\* out); a request with any other threshold or an empty ticker is rejected
\* before any stage runs; an exception of the pipeline becomes an HTTP 500.
C28_OnlyValidRequestsRun ==
  /\ PipelineRunning =>
       /\ RequestValid(epRequest)
       /\ navState.ticker =
            Str(Upper(Strip(Chars[epRequest.ticker])), 1,
                Len(Strip(Chars[epRequest.ticker])))
       /\ navState.threshold =
            (IF Has(epRequest, "threshold") THEN epRequest.threshold ELSE 5)
  /\ (epRequest # EmptyDict /\ ~RequestValid(epRequest)) =>
       (~PipelineRunning /\ epResponse = [status |-> 422])
  /\ Has(epResponse, "status") => epResponse.status \in {200, 422, 500}

----------------------------------------------------------------------------
(* Claims about the fields of a check_NAV_drop result, checked under DropSpec *)

\* C29 as stated: in every successful check_NAV_drop result the reported
\* drop_percentage (rounded to two decimals) is greater than or equal to the
\* reported threshold exactly when alert_triggered is true.
C29_ReportedFieldsAgree ==
  DropSucceeded =>
    (dRes.data.drop_percentage >= dRes.data.threshold * 100
       <=> dRes.data.alert_triggered)

----------------------------------------------------------------------------
(* Claims about the alert configuration form, checked under FormSpec *)

FormSubmitted ==
  ~Has(formErrors, "pending")

\* the addresses of FormEmails that are non-empty and have the form
\* local@domain.tld
WellFormedEmails ==
  {"user@example.com", "u.s-r+1@ex-ample.co.in"}

FormInputValid ==
  /\ whArgs.email \in WellFormedEmails
  /\ whArgs.ticker # ""
  /\ whArgs.threshold_value > 0

\* C30: the form posts to the webhook only when the validation found no
\* error (email non-empty and matching the address pattern, ticker non-empty,
\* threshold greater than 0), and then once; with any error nothing is posted;
\* send_alert_config never raises: it returns (True, message) or, for every
\* transport failure, exception or refused status, (False, message).
C30_PostOnlyWhenValid ==
  FormSubmitted =>
    /\ FormInputValid <=> formErrors.errors = <<>>
    /\ FormInputValid <=> Len(whPosts) = 1
    /\ ~FormInputValid => (whPosts = <<>> /\ Has(whResult, "pending"))
    /\ FormInputValid =>
         /\ DOMAIN whResult = {"success", "message"}
         /\ whResult.success \in BOOLEAN
         /\ whAnswer.kind # "response" => ~whResult.success
         /\ whPosts[1].email = whArgs.email

\* a badly formed address and no ticker: two errors, nothing posted
C30_Witness ==
  /\ FormSubmitted
  /\ whArgs.email = "user@example.c"
  /\ whArgs.ticker = ""
  /\ formErrors.errors = <<"Invalid email address format", "Stock ticker is required">>
  /\ whPosts = <<>>

====
